---- MODULE Spec2Model ----
(***************************************************************************)
(* Scroll-driven reveal and counter engine of the university web page:     *)
(* Counters (js/modules/counters.js), Animations (js/modules/navbar.js),   *)
(* Helpers (js/core/config.js), EventManager (js/core/events.js) and the   *)
(* application reset (js/main.js).                                         *)
(*                                                                         *)
(* Every event handler runs to completion on the single UI thread, so one  *)
(* handler is one action.  Timer and frame callbacks are separate actions  *)
(* that interleave with every other event.  Strings are sequences of       *)
(* one-character strings, so that parseInt, number formatting, the digit   *)
(* stripping regex and String.replace are computed and not assumed.        *)
(***************************************************************************)
EXTENDS Integers, Sequences, FiniteSets, TLC

(***************************** bounds **************************************)
\* number of .stat-number[data-count] elements of the page, each in its own
\* .stat-card
NumCounters == 2
\* number of .fade-in / .slide-up elements of the page
NumFades == 1
\* pending setTimeout(updateCounter) chains that may coexist
MaxTimers == 2
\* pending requestAnimationFrame(step) chains that may coexist
MaxFrames == 2
\* operations of the page and its user over the page lifetime: module inits,
\* window load, scroll, resize, reset, update, removal of an element
MaxOps == 2
\* frame timestamps lie on a grid of duration / FramesPerTween milliseconds
FramesPerTween == 3
\* notifications created over the page lifetime
MaxNotes == 2
\* pending setTimeout callbacks of Notifications that may coexist
MaxNoteTimers == 3
\* operations on Notifications over the page lifetime: init, show, close
\* click, hide, hideAll, clear
MaxNoteOps == 3
\* the clock of the notifications stops at MaxTime ms
MaxTime == 600
\* page loads of the application over the life of its localStorage
MaxLoads == 3
\* number of .course-card / .highlight-card elements of the page
NumCards == 2
\* calls of a debounced function
MaxCalls == 3
\* the clock of the debounced function stops at this many ms
MaxClock == 700
\* smooth scrolls requested in one run, which may overlap
MaxScrolls == 2
\* the duration of a smooth scroll in units of the grid the frame timestamps
\* lie on
ScrollFrames == 2

(************************ program constants ********************************)
\* counters.js:89  const increment = target / 50
Steps == 50
\* counters.js:55 and navbar.js:584  Helpers.isInViewport(el, 100)
ProbeOffset == 100
\* navbar.js:418-422  setTimeout(..., 300) of Notifications.hide
HideDelay == 300
\* config.js:32  Config.NOTIFICATION.DURATION
DefaultDuration == 5000
\* main.js:234  duration of the welcome notification
WelcomeDuration == 8000
\* smooth-scroll.js:38 and config.js:211  the offset for the navbar
NavbarOffset == 80
\* navbar.js:40  if (window.scrollY > 50)
ScrolledAfter == 50
\* navbar.js:82  if (window.scrollY >= (sectionTop - 150))
ActiveMargin == 150
\* events.js:100  Helpers.debounce(() => this.onResize(), 250)
DebounceWait == 250

Elems == 1..NumCounters
Fades == 1..NumFades
Cards == 1..NumCards

(***************************** strings *************************************)
Digits == <<"0", "1", "2", "3", "4", "5", "6", "7", "8", "9">>

IsDigit(c) == \E i \in 1..10 : Digits[i] = c

DigitVal(c) == (CHOOSE i \in 1..10 : Digits[i] = c) - 1

\* String(n) for a non-negative integer
RECURSIVE NatStr(_)
NatStr(n) == IF n < 10 THEN <<Digits[n + 1]>>
             ELSE NatStr(n \div 10) \o <<Digits[(n % 10) + 1]>>

\* number-to-string conversion of `n + suffix` for an integer n
Str(n) == IF n < 0 THEN <<"-">> \o NatStr(0 - n) ELSE NatStr(n)

\* value of the longest digit prefix of s, with the number of digits read
RECURSIVE DigitPrefix(_, _, _)
DigitPrefix(s, acc, read) ==
    IF s # <<>> /\ IsDigit(Head(s))
    THEN DigitPrefix(Tail(s), acc * 10 + DigitVal(Head(s)), read + 1)
    ELSE [val |-> acc, read |-> read]

RECURSIVE SkipSpace(_)
SkipSpace(s) == IF s # <<>> /\ Head(s) = " " THEN SkipSpace(Tail(s)) ELSE s

\* parseInt(s): leading white space, an optional sign, then decimal digits;
\* NaN when no digit is read
ParseIntZero(s) ==
    LET t == SkipSpace(s)
        neg == t # <<>> /\ Head(t) = "-"
        u == IF t # <<>> /\ Head(t) \in {"-", "+"} THEN Tail(t) ELSE t
        p == DigitPrefix(u, 0, 0)
    IN  [nan |-> FALSE, val |-> IF neg THEN 0 - p.val ELSE p.val]

ParseInt(s) ==
    LET t == SkipSpace(s)
        neg == t # <<>> /\ Head(t) = "-"
        u == IF t # <<>> /\ Head(t) \in {"-", "+"} THEN Tail(t) ELSE t
        p == DigitPrefix(u, 0, 0)
    IN  [nan |-> p.read = 0,
         val |-> IF p.read = 0 THEN 0 ELSE IF neg THEN 0 - p.val ELSE p.val]

\* s.replace(/\d+/g, '')
StripDigits(s) == SelectSeq(s, LAMBDA c : ~IsDigit(c))

\* s.replace(pat, ''): the first occurrence of pat is removed
ReplaceFirst(s, pat) ==
    LET hits == {i \in 1..(Len(s) - Len(pat) + 1) :
                     SubSeq(s, i, i + Len(pat) - 1) = pat}
    IN  IF hits = {} THEN s
        ELSE LET i == CHOOSE h \in hits : \A g \in hits : h <= g
             IN  SubSeq(s, 1, i - 1) \o SubSeq(s, i + Len(pat), Len(s))

(************************* page and viewport *******************************)
\* window.innerHeight
InnerHeight == 1000
\* values window.scrollY takes
ScrollStops == {0, 350, 1400}
\* document offsets of the counters (one per card) and of the fade elements.
\* With the window at 0 the first counter is well inside the viewport and the
\* second shows 40 of its 100 pixels: below the probe's 85% line, yet
\* intersecting.  At 350 the first has left by 50 pixels (inside the probe's
\* offset, not intersecting) and the second is well inside.  At 1400 both are
\* far above the viewport.
ElemTop(e) == 200 + (e - 1) * 760
ElemHeight(e) == 100
FadeTop(f) == 600 + (f - 1) * 1300
FadeHeight(f) == 100
\* document offsets of the course cards: the first is in view with the window
\* at 0 and at 350, the second with the window at 1400
CardTop(c) == 500 + (c - 1) * 1200
CardHeight(c) == 100
\* the markup a counter is served with: data-count and text content
Markup == << [count |-> <<"1", "5", "0", "0">>, text |-> <<"1", "5", "0", "0", "+">>],
             [count |-> <<"5">>,                text |-> <<"0">>],
             [count |-> <<"a", "b", "c">>,      text |-> <<"a", "b", "c">>],
             [count |-> <<"-", "5">>,           text |-> <<"-", "5">>] >>
\* the served pages: page i gives counter e the markup i + e - 1, cyclically
Pages == 1..Len(Markup)
Served(i, e) == Markup[((i + e - 2) % Len(Markup)) + 1]
\* the values Counters.update is called with
UpdateValues == {25}

VARIABLES
    hasIO,          \* 'IntersectionObserver' in window
    scrollY,        \* window.scrollY
    attached,       \* [Elems -> BOOLEAN]: the counter's card is in the document
    dataCount,      \* [Elems -> string]: attribute data-count
    text,           \* [Elems -> string]: textContent of the .stat-number
    animated,       \* [Elems -> BOOLEAN]: classList contains 'animated'
    timers,         \* pending setTimeout(updateCounter) callbacks with their closures
    frames,         \* pending requestAnimationFrame(step) callbacks with their closures
    counters,       \* Counters.counters (a static NodeList), as a set of Elems
    inited,         \* Counters.init has run: Counters.counters is defined
    observers,      \* the observers setupObserver created; the last is Counters.observer
    listening,      \* Animations.init has run: its scroll listener is installed
    cardObservers,  \* the observers Animations.setupIntersectionObserver created
    animTimers,     \* pending setTimeout(handleScrollAnimations) callbacks
    visible,        \* [Fades -> BOOLEAN]: classList contains 'visible'
    loaded,         \* the window load event has been dispatched
    deviceClass,    \* the device-* class of document.body: "none" or a device type
    afterReset,     \* history: [Elems -> BOOLEAN], Counters.reset() has reset the
                    \* counter and no reveal of it has begun since
    ops,            \* number of page and user operations so far
    probe,          \* a call of Helpers.isInViewport: its inputs, and its result
                    \* once it has returned
    container,      \* #notification-container is in the document
    notes,          \* the notifications that are children of the container
    shown,          \* history: the notifications created so far, in order
    noteTimers,     \* pending setTimeout callbacks of Notifications
    dismissed,      \* history: the notifications a manual dismissal was invoked on
    now,            \* ms since the page was served
    nops,           \* number of operations on Notifications so far
    managed,        \* EventManager.setupEventListeners has installed its listeners
    detached,       \* history: how often each notification was taken out of the
                    \* container
    raised,         \* history: a handler or callback of Notifications has thrown
    visit,          \* localStorage and the welcome of PuneUniversityApp: the keys
                    \* stored, what onWindowLoad read in this page load, the
                    \* pending welcome timer, and the history of welcomes
    nav,            \* the header and its nav links, the sections, the pending
                    \* frames of smooth scrolls, and the last call that named
                    \* its target by a selector
    reveal,         \* the course cards: the class 'animate-in', what each
                    \* observer of Animations watches of them, and the history
                    \* of their resets
    boot,           \* the DOMContentLoaded event of the document: its listeners,
                    \* the dispatch, and what EventManager has done in it
    deb             \* a function wrapped by Helpers.debounce: the timers of the
                    \* window, the closure's timeout handle, the clock and the
                    \* history of calls and invocations

\* the counters and animations of the page
pageVars == <<hasIO, scrollY, attached, dataCount, text, animated, timers, frames,
              counters, inited, observers, listening, cardObservers, animTimers,
              visible, loaded, deviceClass, afterReset, ops>>

\* the viewport probe taken alone
probeVars == <<probe>>

\* the bootstrap of EventManager and the debounce helper
coreVars == <<boot, deb>>

\* the notifications
notifVars == <<container, notes, shown, noteTimers, dismissed, now, nops,
               managed, detached, raised>>

\* what the counters and animations leave alone
others == <<probeVars, coreVars, notifVars, visit, nav, reveal>>

\* what the viewport probe leaves alone
besidesProbe == <<pageVars, coreVars, notifVars, visit, nav, reveal>>

\* what the notifications leave alone
besidesNotif == <<pageVars, probeVars, coreVars, visit, nav, reveal>>

\* what PuneUniversityApp.reset leaves alone besides the counters, the
\* animations, the notifications and the storage
besidesReset == <<probeVars, coreVars>>

\* what Animations leaves alone besides the page
besidesCards == <<probeVars, coreVars, notifVars, visit, nav>>

vars == <<pageVars, probeVars, coreVars, notifVars, visit, nav, reveal>>

\* what the handlers read and write of the document and the callback queues
Dom == [attached |-> attached, dataCount |-> dataCount, text |-> text,
        animated |-> animated, timers |-> timers, frames |-> frames]

(*************************** Helpers ***************************************)
\* el.getBoundingClientRect(): all zeros for a node that is not in the document
ElemRect(d, e) ==
    IF d.attached[e]
    THEN [top |-> ElemTop(e) - scrollY, bottom |-> ElemTop(e) + ElemHeight(e) - scrollY]
    ELSE [top |-> 0, bottom |-> 0]

FadeRectAt(f, y) == [top |-> FadeTop(f) - y, bottom |-> FadeTop(f) + FadeHeight(f) - y]

InViewportTopOnly(rect, offset, vh) == rect.top * 100 <= vh * 85 + offset * 100

\* the return expression of Helpers.isInViewport for the bounding rectangle
\* rect and the viewport height vh; 0.85 is 85 / 100
InViewportOf(rect, offset, vh) ==
    /\ rect.top * 100 <= vh * 85 + offset * 100
    /\ rect.bottom >= 0 - offset

\* window.innerHeight || document.documentElement.clientHeight
ViewportHeight(win) == IF win.innerHeight # 0 THEN win.innerHeight ELSE win.clientHeight

\* Helpers.isInViewport(el, offset) in the window of the page
IsInViewport(rect, offset) == InViewportOf(rect, offset, InnerHeight)

Max(a, b) == IF a >= b THEN a ELSE b
Min(a, b) == IF a <= b THEN a ELSE b

\* entry.isIntersecting of an observer with root null, rootMargin 0px and
\* threshold 0.1: at least a tenth of the target's box is inside the viewport
IsIntersecting(e) ==
    /\ attached[e]
    /\ LET r == ElemRect(Dom, e)
           inside == Max(0, Min(r.bottom, InnerHeight) - Max(r.top, 0))
       IN  inside * 10 >= ElemHeight(e)

\* the isIntersecting an observer reports for e now
Entry(e) == IF IsIntersecting(e) THEN "in" ELSE "out"

\* the smallest id no pending callback uses
FreeId(pending) ==
    CHOOSE i \in 1..(Cardinality(pending) + 1) :
        /\ \A t \in pending : t.id # i
        /\ \A j \in 1..(i - 1) : \E t \in pending : t.id = j

\* the history of resets after a step: a reveal begins when the step sets the
\* 'animated' marker
RevealsBegin == [e \in Elems |-> afterReset[e] /\ ~(animated'[e] /\ ~animated[e])]

ResetsDone == [e \in Elems |-> afterReset[e] \/ e \in counters]

(*************************** Counters **************************************)
\* target / 50 and its multiples k * target / 50 are exact in binary floating
\* point when target is a multiple of 25; otherwise `current += increment`
\* accumulates a rounding error of either sign
ExactIncrement(target) == target % 25 = 0

\* updateCounter after k additions of increment, for a positive target: the
\* outcome of `current < target` and the value of Math.floor(current).  A
\* rounding error shows only where k * target / 50 is an integer: the sum is
\* then either just below it or not.
UpdateOutcomes(target, k) ==
    LET q == (k * target) \div Steps
    IN  IF k > Steps THEN {[below |-> FALSE, floor |-> q]}
        ELSE IF ExactIncrement(target) \/ (k * target) % Steps # 0
        THEN {[below |-> k < Steps, floor |-> q]}
        ELSE {[below |-> TRUE, floor |-> q - 1], [below |-> k < Steps, floor |-> q]}

\* Counters.animateCounter(counterElement) on the DOM state d, up to and
\* including the first, synchronous call of updateCounter
AnimateCounterNoGuard(d, e) ==
    LET p == ParseInt(d.dataCount[e])
        target == p.val
        suffix == StripDigits(d.text[e])
    IN  IF p.nan THEN d
        ELSE IF target > 0
        THEN [d EXCEPT !.animated[e] = TRUE,
                       !.text[e] = Str(target \div Steps) \o suffix,
                       !.timers = @ \cup {[id |-> FreeId(d.timers), el |-> e,
                                           target |-> target, suffix |-> suffix,
                                           k |-> 1, shown |-> target \div Steps]}]
        ELSE [d EXCEPT !.animated[e] = TRUE,
                       !.text[e] = Str(target) \o suffix]

AnimateCounter(d, e) ==
    LET p == ParseInt(d.dataCount[e])
        target == p.val
        suffix == StripDigits(d.text[e])
    IN  IF d.animated[e] THEN d
        ELSE IF p.nan THEN d
        ELSE IF target > 0
        THEN [d EXCEPT !.animated[e] = TRUE,
                       !.text[e] = Str(target \div Steps) \o suffix,
                       !.timers = @ \cup {[id |-> FreeId(d.timers), el |-> e,
                                           target |-> target, suffix |-> suffix,
                                           k |-> 1, shown |-> target \div Steps]}]
        ELSE [d EXCEPT !.animated[e] = TRUE,
                       !.text[e] = Str(target) \o suffix]

\* Counters.counters.forEach(counter => Counters.animateCounter(counter)),
\* in document order over the elements es
AnimateNone(d, es) == d

RECURSIVE AnimateEach(_, _)
AnimateEach(d, es) ==
    IF es = {} THEN d
    ELSE LET e == CHOOSE x \in es : \A y \in es : x <= y
         IN  AnimateEach(AnimateCounter(d, e), es \ {e})

\* Counters.animateAll()
AnimateAll(d, cs) == AnimateEach(d, cs)

\* observer.observe(e) for every e of es: a watched target stays as it is
Observe(w, es) == [e \in Elems |-> IF e \in es /\ w[e] = "none" THEN "new" ELSE w[e]]

UnobserveAll(w, es) == [e \in Elems |-> "none"]

\* observer.unobserve(e) for every e of es
Unobserve(w, es) == [e \in Elems |-> IF e \in es THEN "none" ELSE w[e]]


UnobserveNothing(obs, es) == obs

\* Counters.observer.unobserve / observe, when Counters.observer is set
UnobserveCurrent(obs, es) ==
    IF obs = <<>> THEN obs ELSE [obs EXCEPT ![Len(obs)] = Unobserve(@, es)]

ObserveNothing(obs, es) == obs

ObserveCurrent(obs, es) ==
    IF obs = <<>> THEN obs ELSE [obs EXCEPT ![Len(obs)] = Observe(@, es)]

\* a registration is: not watched ("none"), watched with no entry delivered
\* yet ("new"), or watched with the isIntersecting last delivered ("in", "out")
NoWatch == [e \in Elems |-> "none"]

\* the elements es in document order
RECURSIVE InOrder(_)
InOrder(es) ==
    IF es = {} THEN <<>>
    ELSE LET e == CHOOSE x \in es : \A y \in es : x <= y
         IN  <<e>> \o InOrder(es \ {e})

\* checkCounters over the counters cs: the calls it makes, in order
RECURSIVE CheckCalls(_, _)
CheckCalls(d, cs) ==
    IF cs = <<>> THEN <<>>
    ELSE (IF IsInViewport(ElemRect(d, Head(cs)), ProbeOffset)
          THEN <<[call |-> "animateCounter", el |-> Head(cs)]>> \o
               (IF hasIO THEN <<[call |-> "unobserve", el |-> Head(cs)]>> ELSE <<>>)
          ELSE <<>>) \o CheckCalls(d, Tail(cs))

\* the calls Counters.init(document) makes on the counters, in the order of
\* its statements: setupObserver (observe each, or animateAll), then
\* checkCounters
InitCalls(d) ==
    LET cs == InOrder({e \in Elems : d.attached[e]})
    IN  [i \in 1..Len(cs) |->
            [call |-> IF hasIO THEN "observe" ELSE "animateCounter", el |-> cs[i]]]
        \o CheckCalls(d, cs)

InitCountersNoCheck(d, obs) ==
    LET cs == {e \in Elems : d.attached[e]}
    IN  [dom |-> IF hasIO THEN d ELSE AnimateAll(d, cs),
         obs |-> IF hasIO THEN Append(obs, Observe(NoWatch, cs)) ELSE obs,
         counters |-> cs]

\* Counters.init(document) on the DOM state d and the observers obs:
\* querySelectorAll, setupObserver, checkCounters
InitCounters(d, obs) ==
    LET cs == {e \in Elems : d.attached[e]}
        d1 == IF hasIO THEN d ELSE AnimateAll(d, cs)
        obs1 == IF hasIO THEN Append(obs, Observe(NoWatch, cs)) ELSE obs
        inView == {e \in cs : IsInViewport(ElemRect(d, e), ProbeOffset)}
    IN  [dom |-> AnimateEach(d1, inView),
         obs |-> UnobserveCurrent(obs1, inView),
         counters |-> cs]

\* Counters.init(), from a DOMContentLoaded listener or the application
CountersInit ==
    /\ ops < MaxOps
    /\ ops' = ops + 1
    /\ LET r == InitCounters(Dom, observers)
       IN  /\ Cardinality(r.dom.timers) <= MaxTimers
           /\ counters' = r.counters
           /\ observers' = r.obs
           /\ text' = r.dom.text
           /\ animated' = r.dom.animated
           /\ timers' = r.dom.timers
    /\ inited' = TRUE
    /\ afterReset' = RevealsBegin
    /\ UNCHANGED <<hasIO, scrollY, attached, dataCount, frames, listening,
                   cardObservers, animTimers, visible, loaded,
                   deviceClass, others>>

\* the callback of observer o of Counters delivering the entry of target e
CountersObserverCallback(o, e) ==
    /\ o \in DOMAIN observers
    /\ observers[o][e] # "none"
    /\ observers[o][e] # Entry(e)
    /\ LET obs1 == [observers EXCEPT ![o][e] = Entry(e)]
           d == IF IsIntersecting(e) THEN AnimateCounter(Dom, e) ELSE Dom
       IN  /\ Cardinality(d.timers) <= MaxTimers
           /\ observers' = IF IsIntersecting(e) THEN UnobserveCurrent(obs1, {e}) ELSE obs1
           /\ text' = d.text
           /\ animated' = d.animated
           /\ timers' = d.timers
    /\ afterReset' = RevealsBegin
    /\ UNCHANGED <<hasIO, scrollY, attached, dataCount, frames, counters, inited,
                   listening, cardObservers, animTimers, visible, loaded, ops,
                   deviceClass, others>>

\* counterElement.textContent = target + suffix, the last write of a tween
FinalTextLastFloor(t) == Str(t.shown) \o t.suffix

FinalText(t) == Str(t.target) \o t.suffix

\* one run of updateCounter from the timer queue
UpdateCounter(t) ==
    /\ t \in timers
    /\ \E out \in UpdateOutcomes(t.target, t.k + 1) :
         IF out.below
         THEN /\ text' = [text EXCEPT ![t.el] = Str(out.floor) \o t.suffix]
              /\ timers' = (timers \ {t}) \cup
                             {[t EXCEPT !.k = t.k + 1, !.shown = out.floor]}
         ELSE /\ text' = [text EXCEPT ![t.el] = FinalText(t)]
              /\ timers' = timers \ {t}
    /\ UNCHANGED <<hasIO, scrollY, attached, dataCount, animated, frames, counters,
                   inited, observers, listening, cardObservers, animTimers,
                   visible, loaded, ops,
                   afterReset,
                   deviceClass, others>>

\* Counters.reset() on the DOM state d and the observers obs
ResetCounters(d, obs) ==
    [dom |-> [d EXCEPT !.animated = [e \in Elems |-> d.animated[e] /\ e \notin counters],
                       !.text = [e \in Elems |->
                          IF e \in counters THEN <<"0">> \o StripDigits(d.text[e])
                          ELSE d.text[e]]],
     obs |-> ObserveCurrent(obs, counters)]

\* Counters.reset(), called by the page
CountersReset ==
    /\ inited
    /\ ops < MaxOps
    /\ ops' = ops + 1
    /\ LET r == ResetCounters(Dom, observers)
       IN  /\ text' = r.dom.text
           /\ animated' = r.dom.animated
           /\ observers' = r.obs
    /\ afterReset' = ResetsDone
    /\ UNCHANGED <<hasIO, scrollY, attached, dataCount, timers, frames, counters,
                   inited, listening, cardObservers, animTimers, visible, loaded,
                   deviceClass, others>>

\* Counters.update(selector, newValue) with the selector matching the card of e
CountersUpdate(e, v) ==
    /\ attached[e]
    /\ ops < MaxOps
    /\ ops' = ops + 1
    /\ dataCount' = [dataCount EXCEPT ![e] = Str(v)]
    /\ animated' = [animated EXCEPT ![e] = FALSE]
    /\ text' = [text EXCEPT ![e] = <<"0">> \o StripDigits(text[e])]
    /\ observers' = ObserveCurrent(observers, {e})
    /\ UNCHANGED <<hasIO, scrollY, attached, timers, frames, counters, inited,
                   listening, cardObservers, animTimers, visible, loaded,
                   afterReset,
                   deviceClass, others>>

(*************************** Animations ************************************)
\* Math.floor(easeOutQuart * numberValue) at progress elapsed / FramesPerTween,
\* with easeOutQuart = 1 - Math.pow(1 - progress, 4)
Eased(numberValue, elapsed) ==
    LET f == FramesPerTween
        r == f - elapsed
    IN  (numberValue * (f * f * f * f - r * r * r * r)) \div (f * f * f * f)

\* Animations.animateStatNumbers(statCard) for the card of e, on the DOM state
\* d, up to the first requestAnimationFrame
AnimateStatNumbers(d, e) ==
    LET originalText == d.text[e]
        p == ParseInt(originalText)
    IN  IF p.nan THEN d
        ELSE IF d.animated[e] THEN d
        ELSE [d EXCEPT !.animated[e] = TRUE,
                       !.text[e] = <<"0">>,
                       !.frames = @ \cup {[id |-> FreeId(d.frames), el |-> e,
                                           numberValue |-> p.val,
                                           originalText |-> originalText,
                                           started |-> FALSE, elapsed |-> 0,
                                           shown |-> 0]}]

\* Animations.init(): the scroll listener, the 100 ms timer and the card observer
AnimationsInit ==
    /\ ops < MaxOps
    /\ ops' = ops + 1
    /\ listening' = TRUE
    /\ animTimers' = animTimers + 1
    /\ cardObservers' = IF hasIO
                        THEN Append(cardObservers,
                                    Observe(NoWatch, {e \in Elems : attached[e]}))
                        ELSE cardObservers
    /\ reveal' = IF hasIO THEN [reveal EXCEPT !.watch = Append(@, [c \in Cards |-> "new"])]
                 ELSE reveal
    /\ UNCHANGED <<hasIO, scrollY, attached, dataCount, text, animated, timers,
                   frames, counters, inited, observers, visible, loaded,
                   afterReset,
                   deviceClass, besidesCards>>

\* no course card is revealed or watched
RevealIdle ==
    reveal = [animateIn |-> [c \in Cards |-> FALSE], watch |-> <<>>,
              wasReset |-> [c \in Cards |-> FALSE]]

\* entry.isIntersecting of the course card c with the window at y
CardIntersects(c, y) ==
    LET top == CardTop(c) - y
        bottom == CardTop(c) + CardHeight(c) - y
        inside == Max(0, Min(bottom, InnerHeight) - Max(top, 0))
    IN  inside * 10 >= CardHeight(c)

CardEntry(c) == IF CardIntersects(c, scrollY) THEN "in" ELSE "out"

\* the callback of card observer o delivering the entry of the course card c:
\* an intersecting card gets its animationDelay and 'animate-in' and is
\* unobserved
CourseCardCallback(o, c) ==
    /\ o \in DOMAIN reveal.watch
    /\ reveal.watch[o][c] # "none"
    /\ reveal.watch[o][c] # CardEntry(c)
    /\ reveal' = IF CardIntersects(c, scrollY)
                 THEN [reveal EXCEPT !.animateIn[c] = TRUE,
                                     !.wasReset[c] = FALSE,
                                     !.watch[o][c] = "none"]
                 ELSE [reveal EXCEPT !.watch[o][c] = "out"]
    /\ UNCHANGED <<pageVars, besidesCards>>

\* the callback of card observer o delivering the entry of the card of e
CardObserverCallback(o, e) ==
    /\ o \in DOMAIN cardObservers
    /\ cardObservers[o][e] # "none"
    /\ cardObservers[o][e] # Entry(e)
    /\ LET d == IF IsIntersecting(e) THEN AnimateStatNumbers(Dom, e) ELSE Dom
       IN  /\ Cardinality(d.frames) <= MaxFrames
           /\ cardObservers' = [cardObservers EXCEPT ![o][e] =
                                   IF IsIntersecting(e) THEN "none" ELSE "out"]
           /\ text' = d.text
           /\ animated' = d.animated
           /\ frames' = d.frames
    /\ afterReset' = RevealsBegin
    /\ UNCHANGED <<hasIO, scrollY, attached, dataCount, timers, counters, inited,
                   observers, listening, animTimers, visible, loaded, ops,
                   deviceClass, others>>

\* one run of step(timestamp), dt grid units after the previous frame
Step(f, dt) ==
    /\ f \in frames
    /\ LET elapsed == IF f.started THEN Min(f.elapsed + dt, FramesPerTween) ELSE 0
           currentNumber == Eased(f.numberValue, elapsed)
       IN  IF elapsed < FramesPerTween
           THEN /\ text' = [text EXCEPT ![f.el] = Str(currentNumber) \o
                               ReplaceFirst(f.originalText, Str(f.numberValue))]
                /\ frames' = (frames \ {f}) \cup
                               {[f EXCEPT !.started = TRUE, !.elapsed = elapsed,
                                          !.shown = currentNumber]}
           ELSE /\ text' = [text EXCEPT ![f.el] = f.originalText]
                /\ frames' = frames \ {f}
    /\ UNCHANGED <<hasIO, scrollY, attached, dataCount, animated, timers, counters,
                   inited, observers, listening, cardObservers, animTimers,
                   visible, loaded, ops,
                   afterReset,
                   deviceClass, others>>

\* Animations.handleScrollAnimations() with the window scrolled to y
HandleScrollAnimationsToggle(vis, y) ==
    [f \in Fades |-> IsInViewport(FadeRectAt(f, y), ProbeOffset)]

HandleScrollAnimations(vis, y) ==
    [f \in Fades |-> vis[f] \/ IsInViewport(FadeRectAt(f, y), ProbeOffset)]

\* a setTimeout(handleScrollAnimations) of Animations.init or onWindowLoad fires
ScrollAnimationsTimer ==
    /\ animTimers > 0
    /\ animTimers' = animTimers - 1
    /\ visible' = HandleScrollAnimations(visible, scrollY)
    /\ UNCHANGED <<hasIO, scrollY, attached, dataCount, text, animated, timers,
                   frames, counters, inited, observers, listening, cardObservers,
                   loaded, ops,
                   afterReset,
                   deviceClass, others>>

\* Animations.reset() on the fade elements; no counter and no stat card
\* carries fade-in, slide-up or animate-in
ResetAnimations(vis) == [f \in Fades |-> FALSE]

\* Animations.reset() on the course cards: those with 'animate-in' lose it
ResetCards(r) ==
    [r EXCEPT !.animateIn = [c \in Cards |-> FALSE],
              !.wasReset = [c \in Cards |-> r.wasReset[c] \/ r.animateIn[c]]]

AnimationsReset ==
    /\ ops < MaxOps
    /\ ops' = ops + 1
    /\ visible' = ResetAnimations(visible)
    /\ reveal' = ResetCards(reveal)
    /\ UNCHANGED <<hasIO, scrollY, attached, dataCount, text, animated, timers,
                   frames, counters, inited, observers, listening, cardObservers,
                   animTimers, loaded,
                   afterReset,
                   deviceClass, besidesCards>>

(*************************** EventManager **********************************)
\* a scroll event: Animations' own listener runs when installed, EventManager's
\* throttled onScroll runs unless it is inside its 100 ms window
OnScroll(y, throttled) ==
    /\ ops < MaxOps
    /\ ops' = ops + 1
    /\ y \in ScrollStops
    /\ y # scrollY
    /\ scrollY' = y
    /\ visible' = IF listening \/ ~throttled
                  THEN HandleScrollAnimations(visible, y) ELSE visible
    /\ UNCHANGED <<hasIO, attached, dataCount, text, animated, timers, frames,
                   counters, inited, observers, listening, cardObservers,
                   animTimers, loaded,
                   afterReset,
                   deviceClass, others>>

\* what the regular expressions of Helpers.isMobile and Helpers.isTablet find
\* in navigator.userAgent
UserAgents == [mobile : BOOLEAN, tablet : BOOLEAN]

GetDeviceTypeTabletFirst(ua) ==
    IF ua.tablet THEN "tablet" ELSE IF ua.mobile THEN "mobile" ELSE "desktop"

\* Helpers.getDeviceType()
GetDeviceType(ua) == IF ua.mobile THEN "mobile" ELSE IF ua.tablet THEN "tablet" ELSE "desktop"

\* EventManager.onResize after the debounce, with the user agent ua: the body
\* gets the class of the device type, and handleResponsiveModules calls
\* handleScrollAnimations when an 'animations' module was registered (which
\* ran Animations.init)
OnResize(registered, ua) ==
    /\ ops < MaxOps
    /\ ops' = ops + 1
    /\ deviceClass' = GetDeviceType(ua)
    /\ visible' = IF registered /\ listening
                  THEN HandleScrollAnimations(visible, scrollY) ELSE visible
    /\ UNCHANGED <<hasIO, scrollY, attached, dataCount, text, animated, timers,
                   frames, counters, inited, observers, listening, cardObservers,
                   animTimers, loaded,
                   afterReset, others>>

\* EventManager.onWindowLoad: the 500 ms timer and Counters.animateAll()
OnWindowLoad ==
    /\ ops < MaxOps
    /\ ops' = ops + 1
    /\ ~loaded
    /\ inited
    /\ loaded' = TRUE
    /\ animTimers' = animTimers + 1
    /\ LET d == AnimateAll(Dom, counters)
       IN  /\ Cardinality(d.timers) <= MaxTimers
           /\ text' = d.text
           /\ animated' = d.animated
           /\ timers' = d.timers
    /\ afterReset' = RevealsBegin
    /\ UNCHANGED <<hasIO, scrollY, attached, dataCount, frames, counters, inited,
                   observers, listening, cardObservers, visible,
                   deviceClass, others>>

(*************************** the document **********************************)
\* the page removes the card of e from the document
RemoveElement(e) ==
    /\ ops < MaxOps
    /\ ops' = ops + 1
    /\ attached[e]
    /\ attached' = [attached EXCEPT ![e] = FALSE]
    /\ UNCHANGED <<hasIO, scrollY, dataCount, text, animated, timers, frames,
                   counters, inited, observers, listening, cardObservers,
                   animTimers, visible, loaded,
                   afterReset,
                   deviceClass, others>>

(*************************** the viewport probe *****************************)
\* the bounding rectangles, windows and offset arguments of the calls
ProbeTops == {0 - 300, 0 - 101, 0 - 100, 0, 510, 511, 850, 851, 950, 951}
ProbeHeights == {0, 100, 200}
ProbeWindows == [innerHeight : {0, InnerHeight}, clientHeight : {0, 600}]
ProbeOffsets == {0 - 50, 0, ProbeOffset}

\* the calls Helpers.isInViewport(el, offset) and Helpers.isInViewport(el)
ProbeInputs ==
    {p \in [rect : {[top |-> t, bottom |-> t + h] : t \in ProbeTops, h \in ProbeHeights},
            win : ProbeWindows, given : BOOLEAN, offset : ProbeOffsets,
            state : {"called"}, result : {FALSE}] :
        p.given \/ p.offset = 0}

\* no call of the probe is under observation
ProbeIdle ==
    probe = [rect |-> [top |-> 0, bottom |-> 0],
             win |-> [innerHeight |-> InnerHeight, clientHeight |-> 0],
             given |-> FALSE, offset |-> 0, state |-> "idle", result |-> FALSE]

\* the default parameter offset = 0
OffsetArg(p) == IF p.given THEN p.offset ELSE 0

\* Helpers.isInViewport runs and returns
ProbeCall ==
    /\ probe.state = "called"
    /\ probe' = [probe EXCEPT
                   !.state = "returned",
                   !.result = InViewportOf(probe.rect, OffsetArg(probe),
                                           ViewportHeight(probe.win))]
    /\ UNCHANGED besidesProbe

(*************************** Notifications *********************************)
\* the type and duration arguments of Notifications.show, and the time
\* between two events, in ms
Types == {"info", "error"}
Durations == {0, 200}
Waits == {100}

\* nothing of Notifications has run
NotifIdle ==
    /\ container = FALSE
    /\ notes = {}
    /\ shown = <<>>
    /\ noteTimers = {}
    /\ dismissed = {}
    /\ now = 0
    /\ nops = 0
    /\ managed = FALSE
    /\ detached = [n \in 1..MaxNotes |-> 0]
    /\ raised = FALSE

AutoHidesAlways(duration) == duration >= 0

\* the test  if (duration > 0)  of Notifications.show
AutoHides(duration) == duration > 0

\* setTimeout(callback, delay) on the timers tm: kind "auto" is the auto-hide
\* callback of show, kind "remove" the removal callback of hide
SetNoteTimer(tm, n, kind, delay) ==
    tm \cup {[id |-> CHOOSE i \in 1..(MaxNoteTimers + 1) : \A t \in tm : t.id # i,
              note |-> n, kind |-> kind, due |-> now + delay]}

HideNothing(n, ns, tm) == tm

\* Notifications.hide(notification) on the timers tm, with ns the children of
\* the container: nothing for a detached notification, else the slide-out and
\* the removal timer
Hide(n, ns, tm) == IF n \notin ns THEN tm ELSE SetNoteTimer(tm, n, "remove", HideDelay)

\* notifications.forEach(Notifications.hide) over the notifications todo
RECURSIVE HideEach(_, _, _)
HideEach(todo, ns, tm) ==
    IF todo = {} THEN tm
    ELSE LET n == CHOOSE x \in todo : \A y \in todo : x <= y
         IN  HideEach(todo \ {n}, ns, Hide(n, ns, tm))

\* parent.removeChild(child) throws when child is not a child of parent
RemoveChild(n, ns) ==
    IF n \in ns THEN [notes |-> ns \ {n}, gone |-> {n}, thrown |-> FALSE]
    ELSE [notes |-> ns, gone |-> {}, thrown |-> TRUE]

RemoveNoteUnguarded(n, ns) == RemoveChild(n, ns)

\* the removal callback of Notifications.hide:
\* if (notification.parentNode) notification.parentNode.removeChild(notification)
RemoveNote(n, ns) ==
    IF n \in ns THEN RemoveChild(n, ns)
    ELSE [notes |-> ns, gone |-> {}, thrown |-> FALSE]

\* the history of detachments after the notifications gone left the container
Detach(gone) == [n \in 1..MaxNotes |-> IF n \in gone THEN detached[n] + 1 ELSE detached[n]]

\* Notifications.getCount()
GetCount == IF container THEN Cardinality(notes) ELSE 0

\* Notifications.init(): the container is created unless it exists
NotificationsInit ==
    /\ nops < MaxNoteOps
    /\ nops' = nops + 1
    /\ container' = TRUE
    /\ UNCHANGED <<notes, shown, noteTimers, dismissed, now, managed, detached,
                   raised, besidesNotif>>

\* the body of Notifications.show(message, type, duration)
ShowNotification(type, duration) ==
    /\ Len(shown) < MaxNotes
    /\ LET n == Len(shown) + 1
           tm == IF AutoHides(duration)
                 THEN SetNoteTimer(noteTimers, n, "auto", duration)
                 ELSE noteTimers
       IN  /\ Cardinality(tm) <= MaxNoteTimers
           /\ shown' = Append(shown, [type |-> type, duration |-> duration, at |-> now])
           /\ notes' = notes \cup {n}
           /\ noteTimers' = tm
    /\ container' = TRUE
    /\ UNCHANGED <<dismissed, now, detached, raised>>

\* Notifications.show(message, type, duration) called by the page
NotificationsShow(type, duration) ==
    /\ nops < MaxNoteOps
    /\ nops' = nops + 1
    /\ ShowNotification(type, duration)
    /\ UNCHANGED <<managed, besidesNotif>>

\* a manual Notifications.hide on the notifications todo
ManualHide(todo) ==
    /\ nops < MaxNoteOps
    /\ nops' = nops + 1
    /\ LET tm == HideEach(todo, notes, noteTimers)
       IN  /\ Cardinality(tm) <= MaxNoteTimers
           /\ noteTimers' = tm
    /\ dismissed' = dismissed \cup todo
    /\ UNCHANGED <<container, notes, shown, now, managed, detached, raised,
                   besidesNotif>>

\* a click on the close button of a notification that is in the document
CloseClick(n) == n \in notes /\ ManualHide({n})

\* Notifications.hide(notification) by a caller that kept what show returned
NotificationsHide(n) == n \in DOMAIN shown /\ ManualHide({n})

\* Notifications.hideAll()
NotificationsHideAll == ManualHide(IF container THEN notes ELSE {})

\* the body of Notifications.clear(): container.innerHTML = ''
ClearNotifications ==
    /\ notes' = IF container THEN {} ELSE notes
    /\ dismissed' = IF container THEN dismissed \cup notes ELSE dismissed
    /\ detached' = Detach(IF container THEN notes ELSE {})
    /\ UNCHANGED <<container, shown, noteTimers, now, raised>>

\* Notifications.clear() called by the page
NotificationsClear ==
    /\ nops < MaxNoteOps
    /\ nops' = nops + 1
    /\ ClearNotifications
    /\ UNCHANGED <<managed, besidesNotif>>

\* a timer of Notifications that is due runs its callback
NoteTimerFires(i) ==
    \E t \in noteTimers :
        /\ t.id = i
        /\ t.due <= now
        /\ IF t.kind = "auto"
           THEN /\ noteTimers' = Hide(t.note, notes, noteTimers \ {t})
                /\ UNCHANGED <<notes, detached, raised>>
           ELSE LET r == RemoveNote(t.note, notes)
                IN  /\ noteTimers' = noteTimers \ {t}
                    /\ notes' = r.notes
                    /\ detached' = Detach(r.gone)
                    /\ raised' = (raised \/ r.thrown)
        /\ UNCHANGED <<container, shown, dismissed, now, nops, managed, besidesNotif>>

\* d ms pass; no timer is overdue
Pass(d) ==
    /\ now + d <= MaxTime
    /\ \A t \in noteTimers : now + d <= t.due
    /\ now' = now + d
    /\ UNCHANGED <<container, notes, shown, noteTimers, dismissed, nops, managed,
                   detached, raised, besidesNotif>>

(*************************** EventManager: errors **************************)
\* the DOMContentLoaded listener of events.js: new EventManager().init(), on a
\* document whose only data-module element, if any, names 'notifications'
EventManagerInit(hasModule) ==
    /\ ~managed
    /\ nops < MaxNoteOps
    /\ nops' = nops + 1
    /\ managed' = TRUE
    /\ container' = (container \/ hasModule)
    /\ UNCHANGED <<notes, shown, noteTimers, dismissed, now, detached, raised,
                   besidesNotif>>

\* the events the window dispatches for an uncaught error and for an
\* unhandled promise rejection
ErrorEvents == {"error", "unhandledrejection"}

ErrorNoticeInfo(ev) == [type |-> "info", duration |-> DefaultDuration]

\* the arguments of Notifications.show in onError and onUnhandledRejection:
\* type Config.NOTIFICATION.TYPES.ERROR, the duration left to its default
ErrorNotice(ev) == [type |-> "error", duration |-> DefaultDuration]

\* the window dispatches the event ev: EventManager.onError or
\* onUnhandledRejection runs if its listener is installed
WindowError(ev) ==
    /\ nops < MaxNoteOps
    /\ nops' = nops + 1
    /\ IF managed
       THEN ShowNotification(ErrorNotice(ev).type, ErrorNotice(ev).duration)
       ELSE UNCHANGED <<container, notes, shown, noteTimers, dismissed, now,
                        detached, raised>>
    /\ UNCHANGED <<managed, besidesNotif>>

(*************** EventManager: bootstrap at DOMContentLoaded ***************)
\* the document of no page load under observation
BootIdle ==
    boot = [phase |-> "idle", listeners |-> <<>>, todo |-> <<>>, ran |-> 0,
            installed |-> FALSE]

\* the listeners a dispatch invokes: a clone of the target's list taken when
\* the dispatch begins, so that a listener added meanwhile is not among them
ListenersOf(b) == b.listeners

\* events.js is evaluated: document.addEventListener('DOMContentLoaded', ...)
\* with the callback that creates the EventManager; before the event for a
\* script of the markup, after it for a script that is loaded late
EvaluateEvents ==
    /\ boot.phase \in {"loading", "done"}
    /\ \A i \in DOMAIN boot.listeners : boot.listeners[i] # "bootstrap"
    /\ boot' = [boot EXCEPT !.listeners = Append(@, "bootstrap")]
    /\ UNCHANGED <<deb, pageVars, probeVars, notifVars, visit, nav, reveal>>

\* the document has been parsed: the dispatch of DOMContentLoaded begins
DOMContentLoaded ==
    /\ boot.phase = "loading"
    /\ boot' = [boot EXCEPT !.phase = "dispatching", !.todo = ListenersOf(boot)]
    /\ UNCHANGED <<deb, pageVars, probeVars, notifVars, visit, nav, reveal>>

\* the dispatch invokes its next listener.  "bootstrap" is the callback of
\* events.js:351: new EventManager().init(), which initialises the modules of
\* the [data-module] elements (a notifications module creates the container)
\* and adds its listeners, the one for DOMContentLoaded among them.  "manager"
\* is that listener: onDOMContentLoaded installs the scroll-to-top, form and
\* apply-button handlers.
InvokeListener(hasModule) ==
    /\ boot.phase = "dispatching"
    /\ boot.todo # <<>>
    /\ IF Head(boot.todo) = "bootstrap"
       THEN /\ boot' = [boot EXCEPT !.todo = Tail(@),
                                    !.listeners = Append(@, "manager")]
            /\ managed' = TRUE
            /\ container' = (container \/ hasModule)
       ELSE /\ boot' = [boot EXCEPT !.todo = Tail(@), !.ran = @ + 1,
                                    !.installed = TRUE]
            /\ UNCHANGED <<managed, container>>
    /\ UNCHANGED <<notes, shown, noteTimers, dismissed, now, nops, detached, raised>>
    /\ UNCHANGED <<deb, pageVars, probeVars, visit, nav, reveal>>

\* the dispatch has invoked its listeners; the event is not fired again in
\* this page load
DispatchEnds ==
    /\ boot.phase = "dispatching"
    /\ boot.todo = <<>>
    /\ boot' = [boot EXCEPT !.phase = "done"]
    /\ UNCHANGED <<deb, pageVars, probeVars, notifVars, visit, nav, reveal>>

(*************************** Helpers.debounce *******************************)
\* the arguments the debounced function is called with
DebounceArgs == {"a", "b"}
\* the steps of the clock, in ms
Ticks == {100, 150}

\* no debounced function is under observation
DebIdle ==
    deb = [timers |-> {}, timeout |-> 0, clock |-> 0, calls |-> <<>>,
           invoked |-> <<>>]

ClearNothing(tm, handle) == tm

\* clearTimeout(handle): nothing for undefined or for a timer that has fired
ClearTimeout(tm, handle) == {t \in tm : t.id # handle}

\* a call of executedFunction(a): clearTimeout(timeout), then
\* timeout = setTimeout(later, wait)
DebouncedCall(a) ==
    /\ Len(deb.calls) < MaxCalls
    /\ LET id == Len(deb.calls) + 1
       IN  deb' = [deb EXCEPT
                     !.timers = ClearTimeout(@, deb.timeout) \cup
                                  {[id |-> id, due |-> deb.clock + DebounceWait,
                                    args |-> a]},
                     !.timeout = id,
                     !.calls = Append(@, [at |-> deb.clock, args |-> a])]
    /\ UNCHANGED <<boot, pageVars, probeVars, notifVars, visit, nav, reveal>>

\* the timer t runs later(), at its time or after: clearTimeout(timeout), then
\* func(...args) with the arguments of the call that set the timer
DebounceTimerFires(t) ==
    /\ t \in deb.timers
    /\ deb.clock >= t.due
    /\ deb' = [deb EXCEPT
                 !.timers = ClearTimeout(@ \ {t}, deb.timeout),
                 !.invoked = Append(@, [at |-> deb.clock, args |-> t.args,
                                        call |-> t.id])]
    /\ UNCHANGED <<boot, pageVars, probeVars, notifVars, visit, nav, reveal>>

\* d ms pass
Tick(d) ==
    /\ deb.clock + d <= MaxClock
    /\ deb' = [deb EXCEPT !.clock = @ + d]
    /\ UNCHANGED <<boot, pageVars, probeVars, notifVars, visit, nav, reveal>>

(****************** Navbar, SmoothScroll, calls by selector ****************)
\* the ids of the section[id] elements of the page, in document order
SectionIds == <<"home", "about">>
Sections == 1..Len(SectionIds)
\* offsetTop of the sections in the layouts considered: the first section at
\* the top of the document, or below a banner
Layouts == {<<0, 900>>, <<400, 1300>>}
\* href of the .nav-link anchors of the header, in document order; no element
\* has the id apply
Hrefs == <<"#", "#home", "#about", "#apply">>
Links == 1..Len(Hrefs)
\* the selectors Helpers.scrollTo is called with
ScrollSelectors == {"#home", "#about", "#apply"}
\* the selectors Counters.update and Counters.getValue are called with: the
\* .stat-card of a counter, or its .stat-number
CardSelectors == [kind : {"card", "number"}, el : Elems]
\* the target selectors Counters.add is called with
AddTargets == {"body", "#missing"}

\* document.querySelector(sel) for a selector of a section: 0 for null
QuerySection(sel) ==
    IF \E i \in Sections : "#" \o SectionIds[i] = sel
    THEN CHOOSE i \in Sections :
             /\ "#" \o SectionIds[i] = sel
             /\ \A j \in 1..(i - 1) : "#" \o SectionIds[j] # sel
    ELSE 0

\* document.querySelector(sel) for a selector of a card or of its number
QueryCard(d, sel) == IF d.attached[sel.el] THEN sel.el ELSE 0

\* document.querySelector(targetSelector) of Counters.add finds an element
QueryTarget(sel) == sel = "body"

\* the header is not in the document and nothing is initialised
NavIdle ==
    nav = [header |-> FALSE, element |-> FALSE, tops |-> <<0, 900>>,
           scrolled |-> FALSE, active |-> {}, menuOpen |-> FALSE,
           expanded |-> FALSE, smooth |-> FALSE, scrolls |-> <<>>,
           asked |-> 0, requested |-> 0, overlap |-> FALSE,
                 written |-> 0, ends |-> {},
           thrown |-> FALSE, last |-> [op |-> "none", hit |-> FALSE, value |-> 0]]

\* the id updateActiveLinks ends its loop over the sections with
CurrentSection(tops, y) ==
    LET q == {i \in Sections : y >= tops[i] - ActiveMargin}
    IN  IF q = {} THEN ""
        ELSE SectionIds[CHOOSE i \in q : \A j \in q : j <= i]

\* the links updateActiveLinks leaves with the class 'active'
ActiveLinks(tops, y) == {l \in Links : Hrefs[l] = "#" \o CurrentSection(tops, y)}

\* Navbar.handleScroll() with window.scrollY = y
HandleScroll(n, y) ==
    IF ~n.element THEN n
    ELSE [n EXCEPT !.scrolled = y > ScrolledAfter,
                   !.active = ActiveLinks(n.tops, y)]

\* Navbar.closeMobileMenu(): the toggler's click collapses the menu, and the
\* class 'menu-open' is removed
CloseMobileMenu(n) ==
    IF n.expanded THEN [n EXCEPT !.expanded = FALSE, !.menuOpen = FALSE] ELSE n

\* SmoothScroll.closeMobileNavbar(): the toggler's click collapses the menu;
\* the click listener of Navbar, if installed, removes 'menu-open'
CloseMobileNavbar(n) ==
    IF n.expanded
    THEN [n EXCEPT !.expanded = FALSE,
                   !.menuOpen = IF n.element THEN FALSE ELSE @]
    ELSE n

\* Navbar.reset()
ResetNavbar(n) ==
    IF ~n.element THEN n ELSE [n EXCEPT !.scrolled = FALSE, !.menuOpen = FALSE]

\* Navbar.init(): nothing without a .main-header; else the listeners are
\* installed and handleScroll() runs once
NavbarInit ==
    /\ nav' = IF nav.header THEN HandleScroll([nav EXCEPT !.element = TRUE], scrollY)
              ELSE nav
    /\ UNCHANGED <<pageVars, probeVars, coreVars, notifVars, visit, reveal>>

\* the user scrolls to y and the scroll listener of Navbar runs
NavbarOnScroll(y) ==
    /\ nav.element
    /\ ~listening
    /\ scrollY' = y
    /\ nav' = HandleScroll(nav, y)
    /\ UNCHANGED <<hasIO, attached, dataCount, text, animated, timers, frames,
                   counters, inited, observers, listening, cardObservers,
                   animTimers, visible, loaded, deviceClass, afterReset, ops>>
    /\ UNCHANGED <<probeVars, coreVars, notifVars, visit, reveal>>

\* Navbar.handleScroll(), called for the scroll event that follows
\* window.scrollTo, by EventManager.onScroll, or directly
NavbarHandleScroll ==
    /\ nav' = HandleScroll(nav, scrollY)
    /\ UNCHANGED <<pageVars, probeVars, coreVars, notifVars, visit, reveal>>

\* the click listener setupActiveLinks puts on link l
NavLinkClick(l) ==
    /\ nav.element
    /\ nav' = [CloseMobileMenu(nav) EXCEPT !.active = {l}]
    /\ UNCHANGED <<pageVars, probeVars, coreVars, notifVars, visit, reveal>>

\* a click of the user on .navbar-toggler: the listener of setupMobileMenu,
\* if installed, sets 'menu-open' from aria-expanded, then the collapse
\* component toggles the menu
TogglerClick ==
    /\ nav.header
    /\ nav' = [nav EXCEPT !.menuOpen = IF nav.element THEN ~nav.expanded ELSE @,
                          !.expanded = ~nav.expanded]
    /\ UNCHANGED <<pageVars, probeVars, coreVars, notifVars, visit, reveal>>

\* Navbar.reset(), called by the page
NavbarReset ==
    /\ nav' = ResetNavbar(nav)
    /\ UNCHANGED <<pageVars, probeVars, coreVars, notifVars, visit, reveal>>

\* requestAnimationFrame(animation) of a smooth scroll from y to the section
\* target, less the navbar offset: the callback joins the queue of the next
\* frame, with startTime null
ScrollStart(n, target, y) ==
    [n EXCEPT !.scrolls = Append(@, [target |-> target, start |-> y,
                                     distance |-> n.tops[target] - y - NavbarOffset,
                                     began |-> FALSE, elapsed |-> 0]),
              !.asked = @ + 1, !.requested = target,
              !.overlap = @ \/ n.scrolls # <<>>]

\* the guard  if (!targetElement) return  left out: reading the bounding
\* rectangle of null throws
ScrollToUnguarded(n, sel, y) ==
    IF QuerySection(sel) = 0 THEN [n EXCEPT !.thrown = TRUE]
    ELSE ScrollStart(n, QuerySection(sel), y)

\* the body of Helpers.scrollTo(selector) with window.pageYOffset = y
ScrollTo(n, sel, y) ==
    IF QuerySection(sel) = 0 THEN n
    ELSE ScrollStart(n, QuerySection(sel), y)

\* Helpers.scrollTo(sel), called by the page
HelpersScrollTo(sel) ==
    /\ nav' = [ScrollTo(nav, sel, scrollY) EXCEPT
                 !.last = [op |-> "scrollTo", hit |-> QuerySection(sel) # 0,
                           value |-> 0]]
    /\ nav'.asked <= MaxScrolls
    /\ UNCHANGED <<pageVars, probeVars, coreVars, notifVars, visit, reveal>>

\* SmoothScroll.init(): a click listener on every a[href^="#"]:not([href="#"])
SmoothScrollInit ==
    /\ nav' = [nav EXCEPT !.smooth = TRUE]
    /\ UNCHANGED <<pageVars, probeVars, coreVars, notifVars, visit, reveal>>

\* the click listener of SmoothScroll on link l
SmoothScrollClick(l) ==
    /\ nav.smooth
    /\ Hrefs[l] # "#"
    /\ LET target == QuerySection(Hrefs[l])
           n == IF target = 0 THEN nav
                ELSE ScrollStart(CloseMobileNavbar(nav), target, scrollY)
       IN  nav' = [n EXCEPT !.last = [op |-> "click", hit |-> target # 0,
                                      value |-> 0]]
    /\ nav'.asked <= MaxScrolls
    /\ UNCHANGED <<pageVars, probeVars, coreVars, notifVars, visit, reveal>>

\* easeInOutCubic(k / ScrollFrames) * distance, to the pixel
Ease(distance, k) ==
    LET n == ScrollFrames
    IN  IF 2 * k < n THEN (distance * 4 * k * k * k) \div (n * n * n)
        ELSE distance + (distance * 4 * (k - n) * (k - n) * (k - n)) \div (n * n * n)

\* the callbacks of a frame run last requested first
NewestFirst(queue) == [i \in 1..Len(queue) |-> queue[Len(queue) + 1 - i]]

\* the order in which a frame runs its callbacks: that of their requests
FrameOrder(queue) == queue

\* the animation callbacks of one frame, run in order on the window w (its
\* scroll position, the queue of the next frame, and the history of writes):
\* each takes the timestamp of the frame, dt grid units after the frame
\* before, calls window.scrollTo(0, run), which the window keeps at or above
\* 0, and requests the next frame unless its duration has elapsed
RECURSIVE RunFrame(_, _, _)
RunFrame(queue, dt, w) ==
    IF queue = <<>> THEN w
    ELSE LET a == Head(queue)
             elapsed == IF a.began THEN Min(a.elapsed + dt, ScrollFrames) ELSE 0
             run == a.start + Ease(a.distance, elapsed)
             going == elapsed < ScrollFrames
         IN  RunFrame(Tail(queue), dt,
                      [y |-> Max(0, run),
                       written |-> run,
                       next |-> IF going
                                THEN Append(w.next, [a EXCEPT !.began = TRUE,
                                                              !.elapsed = elapsed])
                                ELSE w.next,
                       ends |-> IF going THEN w.ends
                                ELSE w.ends \cup {[target |-> a.target, run |-> run]}])

\* a frame of the window with animation callbacks of smooth scrolls pending
AnimationFrame(dt) ==
    /\ nav.scrolls # <<>>
    /\ LET w == RunFrame(FrameOrder(nav.scrolls), dt,
                         [y |-> scrollY, written |-> nav.written, next |-> <<>>,
                          ends |-> nav.ends])
       IN  /\ scrollY' = w.y
           /\ nav' = [nav EXCEPT !.scrolls = w.next, !.written = w.written,
                                 !.ends = w.ends]
    /\ UNCHANGED <<hasIO, attached, dataCount, text, animated, timers, frames,
                   counters, inited, observers, listening, cardObservers,
                   animTimers, visible, loaded, deviceClass, afterReset, ops>>
    /\ UNCHANGED <<probeVars, coreVars, notifVars, visit, reveal>>

\* a card no part of the page has a reference to: the element that
\* Counters.create is about to make
Fresh(e) ==
    /\ ~attached[e]
    /\ ~animated[e]
    /\ e \notin counters
    /\ \A o \in DOMAIN observers : observers[o][e] = "none"
    /\ \A t \in timers : t.el # e
    /\ \A f \in frames : f.el # e

\* Counters.add(v, label, sel): nothing without the target; else a new card
\* with data-count v and text '0' is appended, and Counters.init() runs
CountersAdd(v, sel) ==
    /\ ops < MaxOps
    /\ ops' = ops + 1
    /\ nav' = [nav EXCEPT !.last = [op |-> "add", hit |-> QueryTarget(sel),
                                    value |-> 0]]
    /\ IF QueryTarget(sel)
       THEN /\ \E e \in Elems :
                 /\ Fresh(e)
                 /\ \A g \in 1..(e - 1) : ~Fresh(g)
                 /\ LET d == [Dom EXCEPT !.attached[e] = TRUE,
                                         !.dataCount[e] = Str(v),
                                         !.text[e] = <<"0">>]
                        r == InitCounters(d, observers)
                    IN  /\ Cardinality(r.dom.timers) <= MaxTimers
                        /\ attached' = d.attached
                        /\ dataCount' = d.dataCount
                        /\ counters' = r.counters
                        /\ observers' = r.obs
                        /\ text' = r.dom.text
                        /\ animated' = r.dom.animated
                        /\ timers' = r.dom.timers
            /\ inited' = TRUE
            /\ afterReset' = RevealsBegin
       ELSE UNCHANGED <<attached, dataCount, counters, observers, text, animated,
                        timers, inited, afterReset>>
    /\ UNCHANGED <<hasIO, scrollY, frames, listening, cardObservers, animTimers,
                   visible, loaded, deviceClass>>
    /\ UNCHANGED <<probeVars, coreVars, notifVars, visit, reveal>>

\* Counters.update(sel, v): nothing without the element or without a
\* .stat-number inside it; else as CountersUpdate
UpdateBySelector(sel, v) ==
    /\ ops < MaxOps
    /\ ops' = ops + 1
    /\ nav' = [nav EXCEPT
                 !.last = [op |-> "update", hit |-> QueryCard(Dom, sel) # 0,
                           value |-> 0]]
    /\ IF QueryCard(Dom, sel) # 0 /\ sel.kind = "card"
       THEN /\ dataCount' = [dataCount EXCEPT ![sel.el] = Str(v)]
            /\ animated' = [animated EXCEPT ![sel.el] = FALSE]
            /\ text' = [text EXCEPT ![sel.el] = <<"0">> \o StripDigits(text[sel.el])]
            /\ observers' = ObserveCurrent(observers, {sel.el})
       ELSE UNCHANGED <<dataCount, animated, text, observers>>
    /\ UNCHANGED <<hasIO, scrollY, attached, timers, frames, counters, inited,
                   listening, cardObservers, animTimers, visible, loaded,
                   afterReset, deviceClass>>
    /\ UNCHANGED <<probeVars, coreVars, notifVars, visit, reveal>>

\* Counters.getValue(sel)
GetValue(d, sel) ==
    IF QueryCard(d, sel) = 0 THEN 0
    ELSE IF sel.kind # "card" THEN 0
    ELSE IF ParseInt(d.text[sel.el]).nan THEN 0
    ELSE ParseInt(d.text[sel.el]).val

\* a call of Counters.getValue(sel) by the page
CountersGetValue(sel) ==
    /\ nav' = [nav EXCEPT !.last = [op |-> "getValue", hit |-> QueryCard(Dom, sel) # 0,
                                    value |-> GetValue(Dom, sel)]]
    /\ UNCHANGED <<pageVars, probeVars, coreVars, notifVars, visit, reveal>>

\* the served page, nothing initialised yet
PageInit ==
    /\ hasIO \in BOOLEAN
    /\ scrollY = 0
    /\ attached = [e \in Elems |-> TRUE]
    /\ \E i \in Pages :
         /\ dataCount = [e \in Elems |-> Served(i, e).count]
         /\ text = [e \in Elems |-> Served(i, e).text]
    /\ animated = [e \in Elems |-> FALSE]
    /\ timers = {}
    /\ frames = {}
    /\ counters = {}
    /\ inited = FALSE
    /\ observers = <<>>
    /\ listening = FALSE
    /\ cardObservers = <<>>
    /\ animTimers = 0
    /\ visible = [f \in Fades |-> FALSE]
    /\ loaded = FALSE
    /\ deviceClass = "none"
    /\ afterReset = [e \in Elems |-> FALSE]
    /\ ops = 0

\* the page that the specifications of the other parts start from, with
\* nothing initialised
QuietPage ==
    /\ PageInit
    /\ hasIO
    /\ dataCount = [e \in Elems |-> Served(1, e).count]
    /\ text = [e \in Elems |-> Served(1, e).text]

(*************************** PuneUniversityApp ****************************)
FirstVisitAlways(stored) == TRUE

\* the test  if (!localStorage.getItem('visited'))  of onWindowLoad
FirstVisit(stored) == "visited" \notin stored

\* no page load of the application is under observation
VisitIdle ==
    visit = [stored |-> {}, flag |-> "unread", pending |-> FALSE, welcomed |-> 0,
             total |-> 0, loads |-> 0]

\* PuneUniversityApp.onWindowLoad, the listener of the load event of this
\* page load: the flag is read and the 2000 ms welcome timer is set
AppWindowLoad ==
    /\ visit.loads > 0
    /\ visit.flag = "unread"
    /\ visit' = [visit EXCEPT
                   !.flag = IF FirstVisit(visit.stored) THEN "absent" ELSE "present",
                   !.pending = FirstVisit(visit.stored)]
    /\ UNCHANGED <<pageVars, probeVars, coreVars, notifVars, nav, reveal>>

\* the welcome timer fires: Notifications.info(message, 8000), then
\* localStorage.setItem('visited', 'true')
WelcomeTimerFires ==
    /\ visit.pending
    /\ ShowNotification("info", WelcomeDuration)
    /\ visit' = [visit EXCEPT !.pending = FALSE,
                              !.stored = @ \cup {"visited"},
                              !.welcomed = @ + 1,
                              !.total = @ + 1]
    /\ UNCHANGED <<nops, managed, pageVars, probeVars, coreVars, nav, reveal>>

\* the user loads the page again: a new document and a new window for what
\* the application has touched, the timers of the old one are gone,
\* localStorage stays
PageLoad ==
    /\ visit.loads > 0
    /\ visit.loads < MaxLoads
    /\ text' = [e \in Elems |-> Served(1, e).text]
    /\ animated' = [e \in Elems |-> FALSE]
    /\ timers' = {}
    /\ counters' = {}
    /\ inited' = FALSE
    /\ observers' = <<>>
    /\ afterReset' = [e \in Elems |-> FALSE]
    /\ ops' = 0
    /\ notes' = {}
    /\ shown' = <<>>
    /\ noteTimers' = {}
    /\ dismissed' = {}
    /\ detached' = [n \in 1..MaxNotes |-> 0]
    /\ container' = FALSE
    /\ now' = 0
    /\ UNCHANGED <<hasIO, scrollY, attached, dataCount, frames, listening,
                   cardObservers, animTimers, visible, loaded, deviceClass,
                   nops, managed, raised>>
    /\ visit' = [visit EXCEPT !.flag = "unread", !.pending = FALSE, !.welcomed = 0,
                              !.loads = @ + 1]
    /\ UNCHANGED <<probeVars, coreVars, nav, reveal>>

\* PuneUniversityApp.reset(): Navbar.reset(), Animations.reset() and
\* Counters.reset(), then Notifications.clear() and
\* localStorage.removeItem('visited')
AppReset ==
    /\ inited
    /\ ops < MaxOps
    /\ ops' = ops + 1
    /\ visible' = ResetAnimations(visible)
    /\ LET r == ResetCounters(Dom, observers)
       IN  /\ text' = r.dom.text
           /\ animated' = r.dom.animated
           /\ observers' = r.obs
    /\ afterReset' = ResetsDone
    /\ ClearNotifications
    /\ visit' = [visit EXCEPT !.stored = @ \ {"visited"}, !.total = 0]
    /\ nav' = ResetNavbar(nav)
    /\ reveal' = ResetCards(reveal)
    /\ UNCHANGED <<hasIO, scrollY, attached, dataCount, timers, frames, counters,
                   inited, listening, cardObservers, animTimers, loaded,
                   deviceClass, nops, managed, besidesReset>>

(*************************** specification *********************************)
Init == PageInit /\ ProbeIdle /\ NotifIdle /\ VisitIdle /\ NavIdle /\ RevealIdle /\ BootIdle /\ DebIdle

TimerFires(i) == \E t \in timers : t.id = i /\ UpdateCounter(t)

FrameFires(i) == \E f \in frames, dt \in 1..2 : f.id = i /\ Step(f, dt)

Next ==
    \/ CountersInit
    \/ \E o \in DOMAIN observers, e \in Elems : CountersObserverCallback(o, e)
    \/ \E i \in 1..MaxTimers : TimerFires(i)
    \/ CountersReset
    \/ \E e \in Elems, v \in UpdateValues : CountersUpdate(e, v)
    \/ AnimationsInit
    \/ \E o \in DOMAIN cardObservers, e \in Elems : CardObserverCallback(o, e)
    \/ \E i \in 1..MaxFrames : FrameFires(i)
    \/ ScrollAnimationsTimer
    \/ AnimationsReset
    \/ \E y \in ScrollStops, throttled \in BOOLEAN : OnScroll(y, throttled)
    \/ \E registered \in BOOLEAN, ua \in UserAgents : OnResize(registered, ua)
    \/ OnWindowLoad
    \/ AppReset
    \/ \E e \in Elems : RemoveElement(e)

Spec == Init /\ [][Next]_vars

\* calls of Helpers.isInViewport on the rectangles, windows and offsets of
\* ProbeInputs, the rest of the page idle
ProbeInit == PageInit /\ probe \in ProbeInputs /\ NotifIdle /\ VisitIdle /\ NavIdle /\ RevealIdle /\ BootIdle /\ DebIdle

ProbeNext == ProbeCall

ProbeSpec == ProbeInit /\ [][ProbeNext]_vars

\* the notifications on an otherwise idle page

NotifInit == QuietPage /\ ProbeIdle /\ NotifIdle /\ VisitIdle /\ NavIdle /\ RevealIdle /\ BootIdle /\ DebIdle

NotifNext ==
    \/ NotificationsInit
    \/ \E ty \in Types, d \in Durations : NotificationsShow(ty, d)
    \/ \E n \in 1..MaxNotes : CloseClick(n)
    \/ \E n \in 1..MaxNotes : NotificationsHide(n)
    \/ NotificationsHideAll
    \/ NotificationsClear
    \/ \E i \in 1..MaxNoteTimers : NoteTimerFires(i)
    \/ \E d \in Waits : Pass(d)
    \/ \E hasModule \in BOOLEAN : EventManagerInit(hasModule)
    \/ \E ev \in ErrorEvents : WindowError(ev)

NotifSpec == NotifInit /\ [][NotifNext]_vars

\* page loads of the application, with the flag stored or not at the first
VisitInit ==
    /\ QuietPage /\ ProbeIdle /\ NotifIdle /\ NavIdle /\ RevealIdle /\ BootIdle /\ DebIdle
    /\ \E st \in SUBSET {"visited"} :
          visit = [stored |-> st, flag |-> "unread", pending |-> FALSE, welcomed |-> 0,
                   total |-> 0, loads |-> 1]

VisitNext ==
    \/ AppWindowLoad
    \/ WelcomeTimerFires
    \/ PageLoad
    \/ CountersInit
    \/ AppReset
    \/ \E n \in 1..MaxNotes : CloseClick(n)
    \/ \E i \in 1..MaxNoteTimers : NoteTimerFires(i)
    \/ \E d \in Waits : Pass(d)

VisitSpec == VisitInit /\ [][VisitNext]_vars

\* the navbar and smooth scrolling on a page whose header is present or not
NavInit ==
    /\ QuietPage /\ ProbeIdle /\ NotifIdle /\ VisitIdle /\ RevealIdle /\ BootIdle /\ DebIdle
    /\ \E h \in BOOLEAN, tp \in Layouts, act \in {{}, {2}} :
          nav = [header |-> h, element |-> FALSE, tops |-> tp,
                 scrolled |-> FALSE, active |-> act, menuOpen |-> FALSE,
                 expanded |-> FALSE, smooth |-> FALSE, scrolls |-> <<>>,
                 asked |-> 0, requested |-> 0, overlap |-> FALSE,
                 written |-> 0, ends |-> {},
                 thrown |-> FALSE,
                 last |-> [op |-> "none", hit |-> FALSE, value |-> 0]]

NavNext ==
    \/ NavbarInit
    \/ \E y \in ScrollStops : NavbarOnScroll(y)
    \/ NavbarHandleScroll
    \/ \E l \in Links : NavLinkClick(l)
    \/ TogglerClick
    \/ NavbarReset
    \/ SmoothScrollInit
    \/ \E l \in Links : SmoothScrollClick(l)
    \/ \E dt \in 1..ScrollFrames : AnimationFrame(dt)

NavSpec == NavInit /\ [][NavNext]_vars

\* calls that name their target by a selector, on a page that is served with
\* some of the cards and has the sections of the first layout
TargetInit ==
    /\ hasIO \in BOOLEAN
    /\ scrollY = 0
    /\ attached \in [Elems -> BOOLEAN]
    /\ dataCount = [e \in Elems |-> Served(1, e).count]
    /\ text = [e \in Elems |-> Served(1, e).text]
    /\ animated = [e \in Elems |-> FALSE]
    /\ timers = {}
    /\ frames = {}
    /\ counters = {}
    /\ inited = FALSE
    /\ observers = <<>>
    /\ listening = FALSE
    /\ cardObservers = <<>>
    /\ animTimers = 0
    /\ visible = [f \in Fades |-> FALSE]
    /\ loaded = FALSE
    /\ deviceClass = "none"
    /\ afterReset = [e \in Elems |-> FALSE]
    /\ ops = 0
    /\ ProbeIdle /\ NotifIdle /\ VisitIdle /\ NavIdle /\ RevealIdle /\ BootIdle /\ DebIdle

TargetNext ==
    \/ CountersInit
    \/ \E v \in UpdateValues, sel \in AddTargets : CountersAdd(v, sel)
    \/ \E v \in UpdateValues, sel \in CardSelectors : UpdateBySelector(sel, v)
    \/ \E sel \in CardSelectors : CountersGetValue(sel)
    \/ \E sel \in ScrollSelectors : HelpersScrollTo(sel)
    \/ SmoothScrollInit
    \/ \E l \in Links : SmoothScrollClick(l)
    \/ \E dt \in 1..ScrollFrames : AnimationFrame(dt)

TargetSpec == TargetInit /\ [][TargetNext]_vars

\* smooth scrolls that overlap, the window scrolled by nothing else
ScrollNext ==
    \/ NavbarInit
    \/ NavbarHandleScroll
    \/ \E l \in Links : NavLinkClick(l)
    \/ TogglerClick
    \/ SmoothScrollInit
    \/ \E l \in Links : SmoothScrollClick(l)
    \/ \E sel \in ScrollSelectors : HelpersScrollTo(sel)
    \/ \E dt \in 1..ScrollFrames : AnimationFrame(dt)

ScrollSpec == NavInit /\ [][ScrollNext]_vars

\* the list of counters and its observer under every operation of Counters,
\* on a page that is served with some of the cards
CounterListNext ==
    \/ CountersInit
    \/ \E v \in UpdateValues, sel \in AddTargets : CountersAdd(v, sel)
    \/ \E v \in UpdateValues, sel \in CardSelectors : UpdateBySelector(sel, v)
    \/ CountersReset
    \/ \E o \in DOMAIN observers, e \in Elems : CountersObserverCallback(o, e)
    \/ \E i \in 1..MaxTimers : TimerFires(i)
    \/ \E y \in ScrollStops, throttled \in BOOLEAN : OnScroll(y, throttled)
    \/ OnWindowLoad
    \/ \E e \in Elems : RemoveElement(e)

CounterListSpec == TargetInit /\ [][CounterListNext]_vars

\* the bootstrap of EventManager in one page load, with the notifications
\* its error listeners show
BootInit ==
    /\ QuietPage /\ ProbeIdle /\ NotifIdle /\ VisitIdle /\ NavIdle /\ RevealIdle
    /\ DebIdle
    /\ boot = [phase |-> "loading", listeners |-> <<>>, todo |-> <<>>, ran |-> 0,
               installed |-> FALSE]

BootNext ==
    \/ EvaluateEvents
    \/ DOMContentLoaded
    \/ \E hasModule \in BOOLEAN : InvokeListener(hasModule)
    \/ DispatchEnds
    \/ \E ev \in ErrorEvents : WindowError(ev)
    \/ \E n \in 1..MaxNotes : CloseClick(n)
    \/ \E i \in 1..MaxNoteTimers : NoteTimerFires(i)
    \/ \E d \in Waits : Pass(d)

BootSpec == BootInit /\ [][BootNext]_vars

\* a function wrapped by Helpers.debounce, its calls and its timers
DebounceInit ==
    /\ QuietPage /\ ProbeIdle /\ NotifIdle /\ VisitIdle /\ NavIdle /\ RevealIdle
    /\ BootIdle /\ DebIdle

DebounceNext ==
    \/ \E a \in DebounceArgs : DebouncedCall(a)
    \/ \E t \in deb.timers : DebounceTimerFires(t)
    \/ \E d \in Ticks : Tick(d)

DebounceSpec == DebounceInit /\ [][DebounceNext]_vars

\* the reveal elements of Animations after Animations.init() has run on the
\* first page with the window at one of its stops: fade elements and course
\* cards, the stat cards left aside
RevealInit ==
    /\ hasIO \in BOOLEAN
    /\ scrollY \in ScrollStops
    /\ attached = [e \in Elems |-> TRUE]
    /\ dataCount = [e \in Elems |-> Served(1, e).count]
    /\ text = [e \in Elems |-> Served(1, e).text]
    /\ animated = [e \in Elems |-> FALSE]
    /\ timers = {}
    /\ frames = {}
    /\ counters = {}
    /\ inited = FALSE
    /\ observers = <<>>
    /\ listening = TRUE
    /\ cardObservers = IF hasIO THEN <<Observe(NoWatch, Elems)>> ELSE <<>>
    /\ animTimers = 1
    /\ visible = [f \in Fades |-> FALSE]
    /\ loaded = FALSE
    /\ deviceClass = "none"
    /\ afterReset = [e \in Elems |-> FALSE]
    /\ ops = 0
    /\ reveal = [animateIn |-> [c \in Cards |-> FALSE],
                 watch |-> IF hasIO THEN <<[c \in Cards |-> "new"]>> ELSE <<>>,
                 wasReset |-> [c \in Cards |-> FALSE]]
    /\ ProbeIdle /\ NotifIdle /\ VisitIdle /\ NavIdle /\ BootIdle /\ DebIdle

RevealNext ==
    \/ AnimationsInit
    \/ \E o \in DOMAIN reveal.watch, c \in Cards : CourseCardCallback(o, c)
    \/ ScrollAnimationsTimer
    \/ AnimationsReset
    \/ \E y \in ScrollStops, throttled \in BOOLEAN : OnScroll(y, throttled)
    \/ \E registered \in BOOLEAN, ua \in UserAgents : OnResize(registered, ua)

RevealSpec == RevealInit /\ [][RevealNext]_vars

\* timers of Notifications that are due are eventually run, and time passes
FairNotifSpec ==
    /\ NotifSpec
    /\ \A i \in 1..MaxNoteTimers : WF_vars(NoteTimerFires(i))
    /\ \A d \in Waits : WF_vars(Pass(d))

\* timers and animation frames that are due are eventually run by the event
\* loop; the page, its user and the observers owe nothing
FairSpec ==
    /\ Spec
    /\ \A i \in 1..MaxTimers : WF_vars(TimerFires(i))
    /\ \A i \in 1..MaxFrames : WF_vars(FrameFires(i))

(*************************** properties ************************************)
\* the pending updateCounter chain with id i, if any
TimerPending(i) == \E t \in timers : t.id = i

\* the timers a step adds: the tweens Counters.animateCounter starts in it
StartedTimers == {t \in timers' : \A u \in timers : u.id # t.id}

\* the timers a step removes: the tweens that make their last write in it
EndedTimers == {t \in timers : \A u \in timers' : u.id # t.id}

\* target of the counter e as animateCounter reads it
Target(e) == ParseInt(dataCount[e])

\* C1: every tween Counters.animateCounter starts runs to completion: it takes
\* the target T that data-count parses to and the suffix of the text at its
\* start, under fair timers its chain of callbacks ends, and its last write is
\* str(T) followed by the suffix, also when the element has left the document
\* meanwhile.  A target that is not positive completes in the starting call.
TweenRunsToCompletion ==
    /\ \A i \in 1..MaxTimers : TimerPending(i) ~> ~TimerPending(i)
    /\ [][/\ \A t \in StartedTimers :
                /\ ~Target(t.el).nan
                /\ t.target = Target(t.el).val
                /\ t.suffix = StripDigits(text[t.el])
          /\ \A t \in EndedTimers :
                text'[t.el] = Str(t.target) \o t.suffix
          /\ \A e \in Elems :
                (/\ ~animated[e] /\ animated'[e] /\ frames' = frames
                 /\ \A t \in StartedTimers : t.el # e)
                => text'[e] = Str(Target(e).val) \o StripDigits(text[e])]_vars

\* a tween on "1500+" is one callback from its end on an element that has been
\* removed from the document
TweenOnRemovedElement ==
    \E t \in timers :
        /\ ~attached[t.el]
        /\ t.target = 1500
        /\ t.suffix = <<"+">>
        /\ t.k = Steps - 1

\* the tweens on the counter e: pending chains of timer and of frame callbacks
TweensOn(e) == Cardinality({t \in timers : t.el = e}) +
               Cardinality({f \in frames : f.el = e})

\* C2: within one tween with target T the integers rendered into the element
\* never decrease and none before the last exceeds T, for the timer tween of
\* Counters.animateCounter and the frame tween of Animations.animateStatNumbers
RenderedValuesClimbToTarget ==
    [][/\ \A u \in timers' :
            /\ u.shown <= u.target
            /\ \A t \in timers : t.id = u.id => t.shown <= u.shown
       /\ \A g \in frames' :
            /\ g.shown <= g.numberValue
            /\ \A f \in frames : f.id = g.id => f.shown <= g.shown]_vars

\* C3: at most one tween is active on a counter element at any time
OneTweenPerElement == \A e \in Elems : TweensOn(e) <= 1

\* the step calls Counters.animateCounter on the counter e: the viewport check
\* or the fallback of Counters.init, Counters.animateAll on window load, or
\* the observer callback for an intersecting entry
CallsAnimateCounter(e) ==
    \/ /\ CountersInit
       /\ attached[e]
       /\ ~hasIO \/ IsInViewport(ElemRect(Dom, e), ProbeOffset)
    \/ OnWindowLoad /\ e \in counters
    \/ IsIntersecting(e) /\ \E o \in DOMAIN observers : CountersObserverCallback(o, e)

\* C4: revealing a counter again with no reset in between starts no second
\* tween: the 'animated' marker is set in the call that schedules the first
\* timer, a call on a marked element writes no text and schedules nothing, and
\* a handler that reveals an element twice starts one tween
RevealTwiceStartsOneTween ==
    [][/\ \A t \in StartedTimers : animated'[t.el]
       /\ \A e \in Elems :
            CallsAnimateCounter(e) =>
                /\ Cardinality({t \in StartedTimers : t.el = e}) <= 1
                /\ animated[e] =>
                     /\ text'[e] = text[e]
                     /\ animated'[e]
                     /\ \A t \in StartedTimers : t.el # e]_vars

\* without IntersectionObserver Counters.init has revealed a counter in view
\* twice (animateAll, then checkCounters), the window load has revealed it a
\* third time, and one tween runs on it
RevealedAgainOnLoad ==
    /\ ~hasIO
    /\ loaded
    /\ \E e \in counters :
         /\ IsInViewport(ElemRect(Dom, e), ProbeOffset)
         /\ animated[e]
         /\ TweensOn(e) = 1

\* no character of s is a digit, as in "abc": parseInt(s) is NaN
NoDigit(s) == \A i \in 1..Len(s) : ~IsDigit(s[i])

\* C5: for a counter whose data-count does not parse to an integer every
\* reveal path of Counters (viewport check, observer callback, animateAll) is
\* a no-op: the text stays, 'animated' is not set, no timer is scheduled
UnparsableCounterIsLeftAlone ==
    [][\A e \in Elems :
          (NoDigit(dataCount[e]) /\ CallsAnimateCounter(e)) =>
              /\ text'[e] = text[e]
              /\ animated'[e] = animated[e]
              /\ \A t \in StartedTimers : t.el # e]_vars

\* the counter "abc" lies outside the viewport check of Counters.init, its
\* observer entry and the window load have both revealed it, and it is untouched
UnparsableCounterRevealed ==
    /\ hasIO
    /\ loaded
    /\ \E e \in counters :
         /\ dataCount[e] = <<"a", "b", "c">>
         /\ ~IsInViewport(ElemRect(Dom, e), ProbeOffset)
         /\ observers[Len(observers)][e] = "none"
         /\ text[e] = <<"a", "b", "c">>
         /\ ~animated[e]

\* s is an integer in decimal
IsIntegerText(s) ==
    LET d == IF s # <<>> /\ Head(s) = "-" THEN Tail(s) ELSE s
    IN  d # <<>> /\ \A i \in 1..Len(d) : IsDigit(d[i])

\* s is an integer followed by exactly suffix
ShowsIntegerThen(s, suffix) ==
    LET n == Len(s) - Len(suffix)
    IN  /\ n >= 1
        /\ SubSeq(s, n + 1, Len(s)) = suffix
        /\ IsIntegerText(SubSeq(s, 1, n))

\* C6: while a tween runs, from its start to its final frame, the element
\* shows an integer followed by the suffix taken at the start of the tween
\* (the text with its digit runs removed), for the timer and the frame tween
TweenTextKeepsSuffix ==
    /\ \A t \in timers : ShowsIntegerThen(text[t.el], t.suffix)
    /\ \A f \in frames : ShowsIntegerThen(text[f.el], StripDigits(f.originalText))

\* C7: without IntersectionObserver Counters.init starts a tween on every
\* counter it registers that has a valid target and is not revealed yet,
\* whether or not the counter is in view; under fair timers every such tween
\* ends, and it ends with the counter displaying the target, with no scroll
\* needed
FallbackRevealsEveryCounter ==
    /\ [][(CountersInit /\ ~hasIO) =>
            \A e \in counters' :
                (~Target(e).nan /\ ~animated[e]) =>
                    /\ animated'[e]
                    /\ IF Target(e).val > 0
                       THEN \E t \in StartedTimers :
                                t.el = e /\ t.target = Target(e).val
                       ELSE text'[e] = Str(Target(e).val) \o StripDigits(text[e])]_vars
    /\ [][~hasIO =>
            \A t \in EndedTimers :
                SubSeq(text'[t.el], 1, Len(Str(t.target))) = Str(t.target)]_vars
    /\ \A i \in 1..MaxTimers : (~hasIO /\ TimerPending(i)) ~> ~TimerPending(i)

\* without IntersectionObserver and with the window never scrolled, the counter
\* "5" that lies outside the viewport check has run its tween to the end
FallbackCounterOutOfViewDone ==
    /\ ~hasIO
    /\ scrollY = 0
    /\ ops = 1
    /\ \E e \in counters :
         /\ ~IsInViewport(ElemRect(Dom, e), ProbeOffset)
         /\ dataCount[e] = <<"5">>
         /\ animated[e]
         /\ TweensOn(e) = 0
         /\ text[e] = <<"5">>

\* C8: from the return of Counters.reset() until the next reveal of a counter
\* begins, the counter shows "0" followed by its suffix and carries no
\* 'animated' marker, whatever state it was in when reset was called
ResetStateStays ==
    \A e \in Elems :
        afterReset[e] => ~animated[e] /\ text[e] = <<"0">> \o StripDigits(text[e])

\* neither observer owes a notification for the counter e
NoEntryDue(e) ==
    /\ \A o \in DOMAIN observers : observers[o][e] \in {"none", Entry(e)}
    /\ \A o \in DOMAIN cardObservers : cardObservers[o][e] \in {"none", Entry(e)}

\* C9: a counter with a valid target that Counters.reset() has reset and that
\* is in view is revealed again, with IntersectionObserver and without: it is
\* never left in view with no reveal begun and no observer entry due for it
ResetCounterIsRevealedAgain ==
    \A e \in counters :
        (afterReset[e] /\ attached[e] /\ ~Target(e).nan /\ IsIntersecting(e))
            => ~NoEntryDue(e)

\* C10: no scroll, resize, window load, timer, frame or observer event clears
\* the 'animated' marker of a counter or the 'visible' class of a fade
\* element: a step that clears one is Counters.reset, Counters.update or
\* Animations.reset, alone or inside the application's reset
RevealedUntilExplicitReset ==
    [][/\ \A e \in Elems :
            (animated[e] /\ ~animated'[e]) =>
                \/ CountersReset
                \/ AppReset
                \/ \E v \in UpdateValues : CountersUpdate(e, v)
       /\ \A f \in Fades :
            (visible[f] /\ ~visible'[f]) => (AnimationsReset \/ AppReset)]_vars

\* a counter is revealed and a fade element is visible after the window has
\* been scrolled so far that the element is outside the viewport check
RevealedSurvivesScroll ==
    /\ scrollY # 0
    /\ \E e \in Elems : animated[e]
    /\ \E f \in Fades :
         visible[f] /\ ~IsInViewport(FadeRectAt(f, scrollY), ProbeOffset)

\* C11: when an observer callback of Counters has taken effect for an
\* intersecting counter, the counter is unregistered and no observer instance
\* watches it afterwards, however often Counters.init has run
EnteredCounterIsWatchedByNone ==
    [][\A e \in Elems :
          (/\ ~Target(e).nan
           /\ IsIntersecting(e)
           /\ \E o \in DOMAIN observers : CountersObserverCallback(o, e))
              => \A o \in DOMAIN observers' : observers'[o][e] = "none"]_vars

\* C12: a counter that carries the 'animated' marker is not in the watch-set
\* of Counters.observer, whichever path revealed it
RevealedCounterIsUnobserved ==
    \A e \in Elems :
        animated[e] => (observers = <<>> \/ observers[Len(observers)][e] = "none")

\* the positions of the call c on the counter e in the calls of an init
CallsAt(calls, c, e) == {i \in 1..Len(calls) : calls[i] = [call |-> c, el |-> e]}

\* the counter e passes the viewport check of Counters.checkCounters now
PassesProbe(e) == attached[e] /\ IsInViewport(ElemRect(Dom, e), ProbeOffset)

FallbackAndObserverExclusive ==
    [][/\ ~hasIO => observers' = <<>> /\ cardObservers' = <<>>
       /\ hasIO =>
            \A e \in Elems :
                (~animated[e] /\ animated'[e]) =>
                    \/ CountersInit /\ PassesProbe(e)
                    \/ /\ IsIntersecting(e)
                       /\ \/ \E o \in DOMAIN observers : CountersObserverCallback(o, e)
                          \/ \E o \in DOMAIN cardObservers : CardObserverCallback(o, e)]_vars

\* C15: when Counters.init returns, every counter with a valid target that
\* passes the viewport check carries 'animated', and one revealed by this
\* call shows the first frame of its tween
InViewIsRevealedOnInit ==
    [][CountersInit =>
          \A e \in Elems :
              (PassesProbe(e) /\ ~Target(e).nan) =>
                  /\ animated'[e]
                  /\ ~animated[e] =>
                       text'[e] = Str(IF Target(e).val > 0
                                      THEN Target(e).val \div Steps
                                      ELSE Target(e).val) \o StripDigits(text[e])]_vars

\* Counters.init has just returned with IntersectionObserver available and the
\* window unscrolled: the counter "1500+" shows its first frame "30+" and its
\* first timer is pending
FirstFrameOnInit ==
    /\ hasIO
    /\ ops = 1
    /\ scrollY = 0
    /\ \E t \in timers : t.el = 1 /\ t.k = 1 /\ t.target = 1500
    /\ text[1] = <<"3", "0", "+">>
    /\ animated[1]

\* a step of EventManager.onResize
Resizes == \E registered \in BOOLEAN, ua \in UserAgents : OnResize(registered, ua)

\* C16: a window resize sets the device class of the body to the one of the
\* user agent (mobile before tablet before desktop) and leaves
\* every revealed element as it is: text, 'animated' marker, tweens and
\* observer registrations of the counters are unchanged, and an element that
\* has its reveal class keeps it
ResizeLeavesRevealedAlone ==
    [][Resizes =>
          /\ \A registered \in BOOLEAN, ua \in UserAgents :
                OnResize(registered, ua) =>
                    deviceClass' = IF ua.mobile THEN "mobile"
                                   ELSE IF ua.tablet THEN "tablet" ELSE "desktop"
          /\ text' = text /\ animated' = animated
          /\ timers' = timers /\ frames' = frames /\ animTimers' = animTimers
          /\ observers' = observers /\ cardObservers' = cardObservers
          /\ \A f \in DOMAIN visible : visible[f] => visible'[f]]_vars

\* a resize has set the device class of a tablet while the tween of the first
\* counter is running
ResizedWhileRevealed ==
    /\ deviceClass = "tablet"
    /\ animated[1]
    /\ \E t \in timers : t.el = 1
    /\ ops = MaxOps

\* a step that unobserves the counter e on its reveal by an observer of
\* Counters, or a step of Counters.update on e
UnregistersOrUpdates(e) ==
    \/ /\ IsIntersecting(e)
       /\ \E o \in DOMAIN observers : CountersObserverCallback(o, e)
    \/ \E v \in UpdateValues : CountersUpdate(e, v)

\* C19: when a counter e is unobserved on its reveal, or Counters.update is
\* applied to e, every other counter keeps its registration with every
\* observer, its 'animated' marker, its text and its running tweens
OtherCountersUndisturbed ==
    [][\A e \in Elems :
          UnregistersOrUpdates(e) =>
              \A e2 \in Elems \ {e} :
                  /\ text'[e2] = text[e2]
                  /\ animated'[e2] = animated[e2]
                  /\ dataCount'[e2] = dataCount[e2]
                  /\ DOMAIN observers' = DOMAIN observers
                  /\ \A o \in DOMAIN observers : observers'[o][e2] = observers[o][e2]
                  /\ {t \in timers' : t.el = e2} = {t \in timers : t.el = e2}
                  /\ {t \in frames' : t.el = e2} = {t \in frames : t.el = e2}]_vars

\* the second counter was revealed by the observer and unobserved while the
\* first, put back by Counters.update, is registered and its earlier tween
\* still runs
RevealedBesideRegistered ==
    /\ ops = MaxOps
    /\ animated[2] /\ ~animated[1]
    /\ observers # <<>>
    /\ observers[Len(observers)][2] = "none"
    /\ observers[Len(observers)][1] # "none"
    /\ \E t \in timers : t.el = 1
    /\ \E t \in timers : t.el = 2

\* C17: Helpers.isInViewport(el, offset) returns true exactly when
\* rect.top <= vh * 0.85 + offset and rect.bottom >= -offset, vh being the
\* viewport height; an element entirely above the viewport gives false; the
\* call changes nothing but its result
ProbeMeetsItsContract ==
    [][ProbeCall =>
          LET off == IF probe.given THEN probe.offset ELSE 0
              vh == IF probe.win.innerHeight # 0 THEN probe.win.innerHeight
                    ELSE probe.win.clientHeight
          IN  /\ probe'.result <=> (/\ 20 * probe.rect.top <= 17 * vh + 20 * off
                                    /\ probe.rect.bottom + off >= 0)
              /\ probe.rect.bottom < 0 - off => ~probe'.result
              /\ UNCHANGED besidesProbe
              /\ probe'.rect = probe.rect /\ probe'.win = probe.win
              /\ probe'.given = probe.given /\ probe'.offset = probe.offset]_vars

\* the probe has returned false for an element entirely above the viewport
\* whose top is in range
AboveViewportIsOut ==
    /\ probe.state = "returned"
    /\ ~probe.result
    /\ probe.given /\ probe.offset = ProbeOffset
    /\ probe.rect.bottom < 0 - ProbeOffset
    /\ probe.rect.top * 100 <= ViewportHeight(probe.win) * 85

\* C18: for a detached element, whose bounding rectangle is all zeros,
\* Helpers.isInViewport with the default offset returns false
DetachedIsOutOfViewport ==
    (/\ probe.state = "returned"
     /\ probe.rect = [top |-> 0, bottom |-> 0]
     /\ ~probe.given) => ~probe.result

\* the notifications that were shown with duration 0
Persistent == {n \in DOMAIN shown : shown[n].duration = 0}

\* C20: a notification shown with duration 0 gets no timer at its show, and
\* as long as no manual dismissal (close button, hide, hideAll, clear) was
\* invoked on it, it is in the container and no timer is pending for it
PersistentUntilDismissed ==
    \A n \in Persistent :
        /\ \A t \in noteTimers : t.note = n => t.kind = "remove"
        /\ n \notin dismissed =>
             /\ n \in notes
             /\ \A t \in noteTimers : t.note # n

\* a persistent notification is still in the container, undismissed, at the
\* end of the clock, after a notification with a duration, shown before it,
\* has been removed by its timers
PersistentOutlivesTimed ==
    /\ Len(shown) = 2
    /\ shown[1].duration > 0
    /\ 2 \in Persistent
    /\ notes = {2}
    /\ dismissed = {}
    /\ now = MaxTime

\* C25: the timer tween of a positive target T takes exactly 50 steps: the
\* starting call renders step 1, the callback that makes step k < 50 renders
\* floor(k * T / 50) followed by the suffix and schedules the next, the
\* callback of step 50 renders T followed by the suffix and schedules nothing;
\* a target that is not positive is rendered in full by the starting call
FiftyStepTween ==
    [][/\ \A t \in StartedTimers :
            /\ t.target > 0 /\ t.k = 1
            /\ text'[t.el] = Str(t.target \div Steps) \o t.suffix
       /\ \A e \in Elems :
            (/\ CallsAnimateCounter(e) /\ ~animated[e]
             /\ ~Target(e).nan /\ Target(e).val <= 0) =>
                /\ text'[e] = Str(Target(e).val) \o StripDigits(text[e])
                /\ \A t \in StartedTimers : t.el # e
       /\ \A t \in timers :
            UpdateCounter(t) =>
                /\ t.k + 1 <= Steps
                /\ IF t.k + 1 < Steps
                   THEN /\ text'[t.el] = Str(((t.k + 1) * t.target) \div Steps) \o t.suffix
                        /\ \E u \in timers' : u.id = t.id /\ u.k = t.k + 1
                   ELSE /\ text'[t.el] = Str(t.target) \o t.suffix
                        /\ \A u \in timers' : u.id # t.id]_vars

\* both observers were set up and nothing else has happened to the page: the
\* two module inits are all the operations so far
OnlyObserversAtWork == hasIO /\ inited /\ listening /\ ops = MaxOps /\ Len(observers) = 1

\* no tween is running or pending on the counter e
Settled(e) == (\A t \in timers : t.el # e) /\ (\A f \in frames : f.el # e)

\* C30: a counter in a stat card, watched by the observer of Counters and by
\* the card observer of Animations, settles on str(data-count) followed by
\* its suffix, whichever of the two callbacks came first
WatchedTwiceSettlesOnTarget ==
    \A e \in Elems :
        (/\ OnlyObserversAtWork
         /\ Target(e).val > 0 /\ ~Target(e).nan
         /\ animated[e] /\ Settled(e))
            => text[e] = Str(Target(e).val) \o StripDigits(text[e])

\* the notifications that were shown with a duration and that no manual
\* dismissal was invoked on
Untouched == {n \in DOMAIN shown : shown[n].duration > 0 /\ n \notin dismissed'}

\* C28: a notification shown with duration d > 0 leaves the container with no
\* user action: its hide starts when its timer fires, d ms after the show, the
\* element is detached HideDelay ms after that and not before, and under fair
\* timers it is detached (for the shows the clock has room for)
TimedNoteIsRemoved ==
    /\ [][/\ \A t \in noteTimers' \ noteTimers :
               (t.kind = "remove" /\ t.note \in Untouched) =>
                   /\ now = shown[t.note].at + shown[t.note].duration
                   /\ t.due = now + HideDelay
          /\ \A n \in Untouched :
               (n \in notes /\ n \notin notes') =>
                   /\ \E i \in 1..MaxNoteTimers : NoteTimerFires(i)
                   /\ now = shown[n].at + shown[n].duration + HideDelay]_vars
    /\ \A n \in 1..MaxNotes :
          (/\ n \in notes
           /\ shown[n].duration > 0
           /\ shown[n].at + shown[n].duration + HideDelay <= MaxTime) ~> (n \notin notes)

\* a notification shown with duration 200 was detached by its timers, 500 ms
\* after its show, with no manual dismissal
TimedNoteGone ==
    /\ shown # <<>>
    /\ shown[1].duration = 200
    /\ 1 \notin notes /\ 1 \notin dismissed
    /\ detached[1] = 1
    /\ now = shown[1].at + 500

\* C29: under every interleaving of close clicks, timers, hideAll and clear,
\* a notification is detached at most once, nothing throws, getCount is the
\* number of notifications shown and not detached, and a hide or a timer
\* callback for a detached notification changes nothing
DetachedAtMostOnce ==
    /\ [](/\ ~raised
          /\ \A n \in 1..MaxNotes : detached[n] <= 1
          /\ GetCount = Cardinality({n \in DOMAIN shown : detached[n] = 0}))
    /\ [][/\ \A t \in noteTimers :
               (t.note \notin notes /\ NoteTimerFires(t.id)) =>
                   /\ noteTimers' = noteTimers \ {t}
                   /\ UNCHANGED <<notes, detached, raised, container, shown>>
          /\ \A n \in DOMAIN shown :
               (n \notin notes /\ NotificationsHide(n)) =>
                   UNCHANGED <<notes, noteTimers, detached, raised, container, shown>>]_vars

\* a removal timer is pending for a notification that has already been
\* detached, by clear or by an earlier removal timer
LateRemovalPending ==
    \E t \in noteTimers :
        /\ t.kind = "remove"
        /\ t.note \notin notes
        /\ detached[t.note] = 1

\* C23: every error event and every unhandled rejection event of the window
\* adds exactly one notification of type error, throws nothing, leaves the
\* rest of the page as it is, and the next event is handled as well
EveryErrorIsNotified ==
    /\ [][\A ev \in ErrorEvents :
             WindowError(ev) =>
                 /\ Len(shown') = Len(shown) + 1
                 /\ shown'[Len(shown')].type = "error"
                 /\ notes' = notes \cup {Len(shown')}
                 /\ Len(shown') \notin notes
                 /\ \A n \in DOMAIN shown : shown'[n] = shown[n]
                 /\ ~raised'
                 /\ UNCHANGED <<besidesNotif, managed, dismissed, detached, now>>]_vars
    /\ [](\A ev \in ErrorEvents :
             (/\ nops < MaxNoteOps
              /\ Len(shown) < MaxNotes
              /\ Cardinality(noteTimers) < MaxNoteTimers) => ENABLED WindowError(ev))

\* C23 for the events dispatched after EventManager has installed its
\* listeners: each adds exactly one notification of type error, throws
\* nothing, leaves the rest of the page as it is, and the next event is
\* handled as well
ManagedErrorIsNotified ==
    /\ [][\A ev \in ErrorEvents :
             (managed /\ WindowError(ev)) =>
                 /\ Len(shown') = Len(shown) + 1
                 /\ shown'[Len(shown')].type = "error"
                 /\ notes' = notes \cup {Len(shown')}
                 /\ Len(shown') \notin notes
                 /\ \A n \in DOMAIN shown : shown'[n] = shown[n]
                 /\ ~raised'
                 /\ UNCHANGED <<besidesNotif, managed, dismissed, detached, now>>]_vars
    /\ [](\A ev \in ErrorEvents :
             (/\ managed
              /\ nops < MaxNoteOps
              /\ Len(shown) < MaxNotes
              /\ Cardinality(noteTimers) < MaxNoteTimers) => ENABLED WindowError(ev))

\* two error events in a row have each added an error notification
TwoErrorsNotified ==
    /\ managed
    /\ Len(shown) = 2
    /\ \A n \in {1, 2} : shown[n].type = "error" /\ shown[n].duration = DefaultDuration
    /\ notes = {1, 2}
    /\ nops = MaxNoteOps

\* C21: the 'visited' flag is read once per page load, by onWindowLoad; in a
\* load the welcome notification is shown, or its timer is pending, exactly if
\* the flag was absent at that read; the flag is set in the step that shows
\* the welcome notification and in no other; with no reset in between, the
\* welcome notification is shown at most once over the loads; no other key is
\* written to localStorage
WelcomeOncePerVisitor ==
    /\ [](/\ visit.stored \subseteq {"visited"}
          /\ visit.total <= 1
          /\ visit.welcomed <= 1
          /\ (visit.flag = "absent") <=> (visit.pending \/ visit.welcomed = 1)
          /\ visit.flag = "unread" => ~visit.pending /\ visit.welcomed = 0)
    /\ [][/\ visit'.flag # visit.flag =>
               \/ AppWindowLoad /\ visit.flag = "unread"
               \/ PageLoad /\ visit'.flag = "unread"
          /\ ("visited" \notin visit.stored /\ "visited" \in visit'.stored) <=>
                 (visit'.welcomed = visit.welcomed + 1)
          /\ visit'.welcomed = visit.welcomed + 1 =>
               /\ Len(shown') = Len(shown) + 1
               /\ shown'[Len(shown')] = [type |-> "info", duration |-> WelcomeDuration,
                                         at |-> now]
               /\ Len(shown') \in notes']_vars

\* the third load of a visitor who was welcomed in an earlier load: this load
\* read the flag as present and shows no welcome
WelcomedOnSecondLoad ==
    /\ visit.loads = 3
    /\ visit.total = 1
    /\ visit.flag = "present"
    /\ visit.welcomed = 0
    /\ ops = 0

\* a step leaves the counters, the observer registrations and the scroll
\* position as they are, starts no animation and throws nothing
NothingDone ==
    /\ UNCHANGED <<attached, dataCount, text, animated, counters, inited,
                   observers, timers, frames, scrollY>>
    /\ nav'.scrolls = nav.scrolls
    /\ nav'.active = nav.active
    /\ ~nav'.thrown

\* C22: a call whose selector matches no element does nothing and throws
\* nothing: Counters.add, Counters.update, Helpers.scrollTo and the click
\* listener of SmoothScroll leave the counters, the observer registrations
\* and the scroll position unchanged and start no animation, and
\* Counters.getValue returns 0
MissingTargetIsNoOp ==
    [][/\ \A v \in UpdateValues, sel \in AddTargets :
            ~QueryTarget(sel) /\ CountersAdd(v, sel) => NothingDone
       /\ \A v \in UpdateValues, sel \in CardSelectors :
            QueryCard(Dom, sel) = 0 /\ UpdateBySelector(sel, v) => NothingDone
       /\ \A sel \in CardSelectors :
            QueryCard(Dom, sel) = 0 /\ CountersGetValue(sel) =>
                NothingDone /\ nav'.last.value = 0
       /\ \A sel \in ScrollSelectors :
            QuerySection(sel) = 0 /\ HelpersScrollTo(sel) => NothingDone
       /\ \A l \in Links :
            QuerySection(Hrefs[l]) = 0 /\ SmoothScrollClick(l) => NothingDone]_vars

\* Helpers.scrollTo has returned from a call with a selector of no element,
\* made while the counters were registered and a smooth scroll was under way
ScrollToNowhereReturned ==
    /\ nav.last = [op |-> "scrollTo", hit |-> FALSE, value |-> 0]
    /\ nav.scrolls # <<>>
    /\ \E o \in DOMAIN observers : \E e \in Elems : observers[o][e] # "none"
    /\ \E e \in Elems : ~attached[e]

\* the links whose href names the section that is current at y with the
\* sections at tops: the last section with y >= offsetTop - 150; no link when
\* no section is that far
LinksOfCurrent(tops, y) ==
    {l \in Links : \E i \in Sections :
        /\ y >= tops[i] - ActiveMargin
        /\ \A j \in Sections : j > i => y < tops[j] - ActiveMargin
        /\ Hrefs[l] = "#" \o SectionIds[i]}

\* C27: after every run of Navbar.handleScroll of an initialised navbar the
\* links with the class 'active' are exactly those whose href names the
\* current section, and none when no section qualifies; an active link set by
\* a click is overridden by the next scroll
ActiveLinkIsCurrentSection ==
    [][/\ (nav.element /\ (NavbarHandleScroll \/ \E y \in ScrollStops : NavbarOnScroll(y)))
            => nav'.active = LinksOfCurrent(nav.tops, scrollY')
       /\ (NavbarInit /\ nav'.element)
            => nav'.active = LinksOfCurrent(nav.tops, scrollY')]_vars

\* observer o of Animations delivers the entry of card e in its turn: no card
\* before e in the document has an entry of the same delivery that reports it
\* as intersecting
InItsTurn(o, e) ==
    \A g \in 1..(e - 1) :
        ~(/\ cardObservers[o][g] # "none"
          /\ cardObservers[o][g] # Entry(g)
          /\ IsIntersecting(g))

\* C24: of two stat cards registered by setupIntersectionObserver with the
\* stagger delays 0 ms and 100 ms (index * 100 in document order), both with
\* a number to show, the card with 100 ms has its first visible change no
\* earlier than the card with 0 ms: when the text of the second changes as
\* its reveal begins, the reveal of the first has begun
StaggeredCardsStartInOrder ==
    [][\A o \in DOMAIN cardObservers :
          (/\ CardObserverCallback(o, 2)
           /\ InItsTurn(o, 2)
           /\ attached[1] /\ attached[2]
           /\ ~ParseInt(text[1]).nan
           /\ ~animated[2] /\ animated'[2]
           /\ text'[2] # text[2])
          => animated[1]]_vars

\* C26: after Animations.reset() every reveal element is eligible again as at
\* its first registration: a fade-in or slide-up element gets 'visible' back
\* at the next scroll that finds it in view, and a course or highlight card
\* that lost 'animate-in' is watched by an observer, which gives it back the
\* next time the card is in view
ResetRevealIsEligibleAgain ==
    /\ [](\A c \in Cards :
             reveal.wasReset[c] =>
                 \E o \in DOMAIN reveal.watch : reveal.watch[o][c] # "none")
    /\ [][\A f \in Fades :
             (/\ listening
              /\ scrollY' # scrollY
              /\ IsInViewport(FadeRectAt(f, scrollY'), ProbeOffset))
             => visible'[f]]_vars

\* C31: with IntersectionObserver, once Counters.init has returned, every
\* counter of Counters.counters that has a valid target and no 'animated'
\* marker is registered with the current observer of Counters; reveal, reset,
\* update and add preserve this
PendingCounterIsRegistered ==
    (hasIO /\ inited) =>
        \A e \in counters :
            (~Target(e).nan /\ ~animated[e]) => observers[Len(observers)][e] # "none"

\* a counter with a valid target that Counters.reset() has taken the marker
\* from, after it had been revealed, and that the current observer watches
ResetCounterRegisteredAgain ==
    /\ hasIO /\ inited
    /\ \E e \in counters :
         /\ afterReset[e] /\ ~animated[e] /\ ~Target(e).nan
         /\ \E t \in timers : t.el = e
         /\ observers[Len(observers)][e] # "none"

\* C32: in a page load in which the EventManager has been initialised,
\* EventManager.onDOMContentLoaded runs exactly once, so that the form,
\* scroll-to-top and apply-button handlers are installed: once the dispatch
\* of DOMContentLoaded is over it has run once and they are installed
HandlersInstalledOnLoad ==
    (boot.phase = "done" /\ managed) => (boot.ran = 1 /\ boot.installed)

\* C34: a function wrapped by Helpers.debounce(func, wait) is invoked only
\* when wait ms have passed since the most recent call, with the arguments of
\* that call and once for it; at most one timer is pending at any time, and
\* when none is pending the most recent call has been served
DebounceServesLastCall ==
    /\ [](/\ Cardinality(deb.timers) <= 1
          /\ (deb.timers = {} /\ deb.calls # <<>>) =>
                 /\ deb.invoked # <<>>
                 /\ deb.invoked[Len(deb.invoked)].call = Len(deb.calls))
    /\ [][Len(deb.invoked') > Len(deb.invoked) =>
            LET v == deb.invoked'[Len(deb.invoked')]
            IN  /\ v.call = Len(deb.calls)
                /\ v.args = deb.calls[v.call].args
                /\ v.at >= deb.calls[v.call].at + DebounceWait
                /\ \A i \in DOMAIN deb.invoked : deb.invoked[i].call # v.call]_vars

\* a burst of three calls, each less than wait ms after the one before, has
\* led to one invocation, with the arguments of the third
BurstServedOnce ==
    /\ Len(deb.calls) = 3
    /\ \A i \in 1..2 : deb.calls[i + 1].at - deb.calls[i].at \in 1..(DebounceWait - 1)
    /\ deb.calls[1].args # deb.calls[3].args
    /\ Len(deb.invoked) = 1
    /\ deb.invoked[1].args = deb.calls[3].args
    /\ deb.timers = {}

\* ---- C33: smooth scrolls that overlap ----

\* what is left of the durations of the smooth scrolls in a frame queue
RECURSIVE Remaining(_)
Remaining(queue) ==
    IF queue = <<>> THEN 0
    ELSE LET a == Head(queue)
         IN  (IF a.began THEN ScrollFrames - a.elapsed ELSE ScrollFrames + 1)
             + Remaining(Tail(queue))

\* every smooth scroll requested has ended
ScrollsOver == nav.requested # 0 /\ nav.scrolls = <<>>

\* C33 as stated: once every smooth scroll has ended, the scroll position of
\* the window is the top of the target requested last, less 80
ScrollEndsAtTargetLessOffset ==
    ScrollsOver => scrollY = nav.tops[nav.requested] - NavbarOffset

\* the last frame of every smooth scroll is at progress 1 and writes the top
\* of its target less 80; once all have ended, the last write is that of the
\* scroll requested last, and the window is where that write put it
LastWriteIsOfLastRequest ==
    /\ \A e \in nav.ends : e.run = nav.tops[e.target] - NavbarOffset
    /\ \A i \in DOMAIN nav.scrolls : nav.scrolls[i].elapsed < ScrollFrames
    /\ ScrollsOver =>
          /\ nav.written = nav.tops[nav.requested] - NavbarOffset
          /\ scrollY = Max(0, nav.written)

\* C33: every smooth scroll ends, its last frame at progress 1 writing the top
\* of its target less 80; when smooth scrolls overlap, every frame brings each
\* of them nearer its end, and once all have ended the window is where the
\* write of the scroll requested last put it: at the top of that target less
\* 80, or at 0 where that is above the document
SmoothScrollsSettle ==
    /\ []LastWriteIsOfLastRequest
    /\ [][(nav'.scrolls # nav.scrolls /\ nav'.asked = nav.asked)
             => Remaining(nav'.scrolls) < Remaining(nav.scrolls)]_vars

\* two smooth scrolls to different sections overlapped and have ended, the
\* window at the section requested last, less 80
OverlappingScrollsEnded ==
    /\ nav.overlap
    /\ ScrollsOver
    /\ {e.target : e \in nav.ends} = Sections
    /\ scrollY > 0
    /\ scrollY = nav.tops[nav.requested] - NavbarOffset

\* ---- C35: Counters.update during a tween ----

\* the values Counters.update is called with during a tween
LateValues == {0, 25}

\* Counters.init, the reports of its observer, the timers of its tweens and
\* Counters.update
UpdateNext ==
    \/ CountersInit
    \/ \E o \in DOMAIN observers, e \in Elems : CountersObserverCallback(o, e)
    \/ \E i \in 1..MaxTimers : TimerFires(i)
    \/ \E e \in Elems, v \in LateValues : CountersUpdate(e, v)

UpdateSpec == Init /\ [][UpdateNext]_vars

\* counter e was updated to v, was reported in view since, and no tween is
\* left on it
SettledAfterUpdate(e, v) ==
    /\ dataCount[e] = Str(v)
    /\ animated[e]
    /\ Settled(e)

\* C35: a counter that Counters.update set to v and that was then reported in
\* view settles on the text str(v) + suffix, also when update was called
\* while a tween toward the old value was running on it
UpdatedCounterSettlesOnNewValue ==
    \A e \in Elems, v \in LateValues :
        SettledAfterUpdate(e, v) => text[e] = Str(v) \o StripDigits(text[e])

====
